---- MODULE Spec2Model ----
(***************************************************************************)
(* Model of the prediction and accumulator engine of                       *)
(* src/ai_service/predictor.py (class Predictor), of the two request        *)
(* handlers of src/ai_service/api.py that use it, with the storage calls   *)
(* of src/ai_service/storage.py, and of the job scheduler of               *)
(* src/ai_service/cron_jobs.py.                                            *)
(*                                                                         *)
(* Numbers.  Python floats are modelled as fixed-point integers:           *)
(*   - a probability p is the integer p * PS (PS = 10^4), so that the      *)
(*     serialised round(p * 100, 2) is the same integer read as            *)
(*     hundredths of a percent;                                            *)
(*   - decimal odds are integers in hundredths (1.80 is 180);              *)
(*   - team strengths are integers in thousandths (SS = 10^3), which       *)
(*     represents every strength the code computes exactly;                *)
(*   - value% and edge are exact rationals with numerator EdgeNum and are  *)
(*     compared by cross-multiplication; the stored numbers are rounded    *)
(*     as round(x, 2) and round(x, 3) round them.                          *)
(* An exception is the value Raise; Python's None is the value None.       *)
(***************************************************************************)
EXTENDS Integers, Sequences, FiniteSets, TLC

VARIABLES pc, sport, has_model, matches_data, idx, predictions,
          vb_args, vb_out, pool, acc_args, attempts, acc_out,
          all_predictions, combo, accumulators, clock, results,
          conf_args, conf_out,
          request, is_initialized, sport_idx, api_matches, api_predictions,
          api_accumulators, sink_calls, response,
          is_running, scheduler_thread, loops, calls, ncalls

vars == <<pc, sport, has_model, matches_data, idx, predictions,
          vb_args, vb_out, pool, acc_args, attempts, acc_out,
          all_predictions, combo, accumulators, clock, results,
          conf_args, conf_out,
          request, is_initialized, sport_idx, api_matches, api_predictions,
          api_accumulators, sink_calls, response,
          is_running, scheduler_thread, loops, calls, ncalls>>

predict_vars == <<sport, has_model, matches_data, idx, predictions>>
value_vars == <<vb_args, vb_out>>
acc_vars == <<pool, acc_args, attempts, acc_out>>
matrix_vars == <<all_predictions, combo, accumulators, clock, results>>
conf_vars == <<conf_args, conf_out>>
api_vars == <<request, is_initialized, sport_idx, api_matches, api_predictions,
              api_accumulators, sink_calls, response>>
sched_vars == <<is_running, scheduler_thread, loops, calls, ncalls>>
service_vars == <<conf_vars, api_vars, sched_vars>>

\* ------------------------------------------------------------ arithmetic

\* Fixed-point scale of probabilities (units of 0.0001).
PS == 100 * 100

\* Fixed-point scale of team strengths (units of 0.001).
SS == 10 * 100

None == [none |-> TRUE]
Raise == [raised |-> TRUE]

IsNone(x) == DOMAIN x = {"none"}
IsRaise(x) == DOMAIN x = {"raised"}

Max2(a, b) == IF a >= b THEN a ELSE b
Max3(a, b, c) == Max2(a, Max2(b, c))
Abs(a) == IF a < 0 THEN -a ELSE a

\* a / b rounded to the nearest integer, halves to even (Python's round on an
\* exact value); b # 0.
RoundDiv(a, b) ==
    LET n == IF b < 0 THEN -a ELSE a
        d == IF b < 0 THEN -b ELSE b
        q == n \div d
        r == n - q * d
    IN  IF 2 * r < d THEN q
        ELSE IF 2 * r > d THEN q + 1
        ELSE IF q % 2 = 0 THEN q ELSE q + 1

\* Fixed-point product and quotient of two probabilities, each taken whole
\* part first, which keeps the intermediate products small.
FMul(a, b) ==
    LET q == b \div PS
    IN  a * q + RoundDiv(a * (b - q * PS), PS)
FDiv(a, b) ==
    LET n == IF b < 0 THEN -a ELSE a
        d == IF b < 0 THEN -b ELSE b
        q == n \div d
    IN  q * PS + RoundDiv((n - q * d) * PS, d)

\* ------------------------------------------------- _calculate_value_bet

Outcomes == <<"H", "D", "A">>

\* edge = prob - 1/odds as the exact rational EdgeNum / (PS * odds), and
\* value_pct = edge / (1/odds) * 100 = EdgeNum / PS percent (p in 1/PS, o in
\* hundredths).
EdgeNum(p, o) == p * o - 100 * PS

\* value_pct: 0 unless implied_prob = 1/odds > 0 (line 729).
ValuePctNum(p, o) == IF o > 0 THEN EdgeNum(p, o) ELSE 0

\* value_pct > n (n a whole percentage).
ValueGT(p, o, n) == ValuePctNum(p, o) > n * PS

\* edge > n/100, for o # 0.
EdgeGT(p, o, n) ==
    IF o > 0 THEN EdgeNum(p, o) > n * (PS \div 100) * o
    ELSE EdgeNum(p, o) < n * (PS \div 100) * o

\* round(value_pct, 2) in hundredths of a percent.
RoundedValue(p, o) == RoundDiv(ValuePctNum(p, o), PS \div 100)

\* round(edge, 3) in thousandths.
RoundedEdge(p, o) == RoundDiv(EdgeNum(p, o), (PS \div 1000) * o)

\* The tier a mutated classification would give: the Tier 1 override is lost.
TierNoOverride(p, o) ==
    IF ValueGT(p, o, 15) /\ EdgeGT(p, o, 15)
    THEN IF o < 200 THEN "Tier 2" ELSE IF o < 350 THEN "Tier 2" ELSE "Tier 5"
    ELSE IF ValueGT(p, o, 10) /\ EdgeGT(p, o, 10)
    THEN IF o < 250 THEN "Tier 2" ELSE IF o < 400 THEN "Tier 5" ELSE "Tier 10"
    ELSE IF ValueGT(p, o, 5) /\ EdgeGT(p, o, 5)
    THEN IF o < 300 THEN "Tier 5" ELSE "Tier 10"
    ELSE "Tier 10"

\* The tier a mutated classification would give: the 'good value' branch
\* keeps Tier 2 up to odds 4.0 and the 'strong value' branch drops to Tier 5
\* from odds 2.0.
TierSwapped(p, o) ==
    LET chain ==
          IF ValueGT(p, o, 15) /\ EdgeGT(p, o, 15)
          THEN IF o < 200 THEN "Tier 2" ELSE "Tier 5"
          ELSE IF ValueGT(p, o, 10) /\ EdgeGT(p, o, 10)
          THEN IF o < 400 THEN "Tier 2" ELSE "Tier 10"
          ELSE IF ValueGT(p, o, 5) /\ EdgeGT(p, o, 5)
          THEN IF o < 300 THEN "Tier 5" ELSE "Tier 10"
          ELSE "Tier 10"
    IN  IF ValueGT(p, o, 20) /\ EdgeGT(p, o, 20) /\ o < 180
        THEN "Tier 1" ELSE chain

\* Lines 735-761: the default tier, the if/elif chain on (value_pct, edge,
\* odds), then the trailing Tier 1 override.
Tier(p, o) ==
    LET chain ==
          IF ValueGT(p, o, 15) /\ EdgeGT(p, o, 15)
          THEN IF o < 200 THEN "Tier 2"
               ELSE IF o < 350 THEN "Tier 2"
               ELSE "Tier 5"
          ELSE IF ValueGT(p, o, 10) /\ EdgeGT(p, o, 10)
          THEN IF o < 250 THEN "Tier 2"
               ELSE IF o < 400 THEN "Tier 5"
               ELSE "Tier 10"
          ELSE IF ValueGT(p, o, 5) /\ EdgeGT(p, o, 5)
          THEN IF o < 300 THEN "Tier 5"
               ELSE "Tier 10"
          ELSE "Tier 10"
    IN  IF ValueGT(p, o, 20) /\ EdgeGT(p, o, 20) /\ o < 180
        THEN "Tier 1"
        ELSE chain

\* Lines 725-736: the entry of the values dict for one outcome.
ValueEntry(p, o) ==
    [edge |-> RoundedEdge(p, o), value |-> RoundedValue(p, o), tier |-> Tier(p, o)]

\* Line 764: max(values.items(), key=value): the first outcome, in the
\* insertion order H, D, A, whose rounded value is maximal.
BestValue(values) ==
    IF values["H"].value >= values["D"].value /\ values["H"].value >= values["A"].value
    THEN "H"
    ELSE IF values["D"].value >= values["A"].value THEN "D" ELSE "A"

\* A mutated return: the best outcome is always flagged as recommended.
ValueBetReturnAlwaysRecommended(predicted_result, values, odds) ==
    LET outcome == BestValue(values)
    IN  IF values[outcome].value > 500
        THEN [outcome |-> outcome, odds |-> odds[outcome],
              value |-> values[outcome].value, edge |-> values[outcome].edge,
              tier |-> values[outcome].tier, isRecommended |-> TRUE]
        ELSE IF values[predicted_result].value > 0
        THEN [outcome |-> predicted_result, odds |-> odds[predicted_result],
              value |-> values[predicted_result].value,
              edge |-> values[predicted_result].edge,
              tier |-> values[predicted_result].tier, isRecommended |-> FALSE]
        ELSE None

\* Lines 763-788: what is returned once the values dict is complete.
ValueBetReturn(predicted_result, values, odds) ==
    LET outcome == BestValue(values)
    IN  IF values[outcome].value > 500
        THEN [outcome |-> outcome, odds |-> odds[outcome],
              value |-> values[outcome].value, edge |-> values[outcome].edge,
              tier |-> values[outcome].tier,
              isRecommended |-> values[outcome].value > 1000]
        ELSE IF values[predicted_result].value > 0
        THEN [outcome |-> predicted_result, odds |-> odds[predicted_result],
              value |-> values[predicted_result].value,
              edge |-> values[predicted_result].edge,
              tier |-> values[predicted_result].tier, isRecommended |-> FALSE]
        ELSE None

\* Lines 714-792.  1 / odds[outcome] (line 727) raises ZeroDivisionError for
\* odds 0, before the guard of line 729 is reached; the except clause of
\* line 790 turns any exception into None.  The result carries the values
\* dict (a local) next to the returned value.
calculate_value_bet(predicted_result, home_prob, draw_prob, away_prob, odds) ==
    LET outcome_probs == [o \in {"H", "D", "A"} |->
                            IF o = "H" THEN home_prob
                            ELSE IF o = "D" THEN draw_prob ELSE away_prob]
    IN  IF \E o \in {"H", "D", "A"} : odds[o] = 0
        THEN [ret |-> None, raised |-> TRUE, values |-> <<>>]
        ELSE LET values == [o \in {"H", "D", "A"} |->
                              ValueEntry(outcome_probs[o], odds[o])]
             IN  [ret |-> ValueBetReturn(predicted_result, values, odds),
                  raised |-> FALSE, values |-> values]

\* --------------------------------------------------------- the matches

\* The keys predict_* read from a match with match[key]: a match that lacks
\* one raises KeyError there.
RequiredKeys == {"homeTeam", "awayTeam", "id", "startTime", "league"}

\* Lines 236-237, 451-452: W = 3, D = 1, anything else 0, summed over the
\* characters of the form string.
RECURSIVE FootballFormValue(_)
FootballFormValue(form) ==
    IF form = <<>> THEN 0
    ELSE (IF Head(form) = "W" THEN 3 ELSE IF Head(form) = "D" THEN 1 ELSE 0)
         + FootballFormValue(Tail(form))

\* Lines 816-817: W = 1, anything else 0.
RECURSIVE BasketballFormValue(_)
BasketballFormValue(form) ==
    IF form = <<>> THEN 0
    ELSE (IF Head(form) = "W" THEN 1 ELSE 0) + BasketballFormValue(Tail(form))

\* ------------------------------------------------------------ scipy poisson

\* Sum of the series of e^(-q) from term k on, in units of 1/PS; term is the
\* previous term.
RECURSIVE ExpSeries(_, _, _)
ExpSeries(q, k, term) ==
    IF k > 12 THEN 0
    ELSE LET t == RoundDiv(-(term * q), PS * k)
         IN  t + ExpSeries(q, k + 1, t)

\* e^(-x) for x >= 0 in units of 1/PS, as (e^(-x/4))^4.
ExpNeg(x) ==
    LET q == RoundDiv(x, 4)
        e1 == PS + ExpSeries(q, 1, PS)
        e2 == FMul(e1, e1)
    IN  FMul(e2, e2)

\* scipy.stats.poisson.pmf(k, mu) = e^(-mu) mu^k / k!.
RECURSIVE poisson_pmf(_, _)
poisson_pmf(k, mu) ==
    IF k = 0 THEN ExpNeg(mu)
    ELSE RoundDiv(poisson_pmf(k - 1, mu) * mu, PS * k)

\* Line 534.
max_goals == 5

\* ------------------------------------------------------- football

\* round(x * 100, 2) of a probability x, in hundredths of a percent.
Pct2(x) == RoundDiv(x, PS \div 10000)

\* Lines 598-620: the 'even more basic fallback' of the heuristic path.  It
\* reads match_data['id'], ['homeTeam']['name'], ['awayTeam']['name'],
\* ['startTime'] and ['league']['name'] outside any try block.
DegradedFootball(m) ==
    IF m.missing # {} THEN Raise
    ELSE [matchId |-> m.id, sport |-> "football", predictedOutcome |-> "H",
          confidence |-> 6000, isPremium |-> FALSE, valueBet |-> None,
          market |-> "1X2",
          probability |-> [o \in {"H", "D", "A"} |->
                             IF o = "H" THEN 6000 ELSE IF o = "D" THEN 2500 ELSE 1500],
          odds |-> [o \in {"H", "D", "A"} |->
                      IF o = "H" THEN 180 ELSE IF o = "D" THEN 350 ELSE 450],
          path |-> "degraded",
          locals |-> [o \in {"H", "D", "A"} |->
                        IF o = "H" THEN 6000 ELSE IF o = "D" THEN 2500 ELSE 1500]]

\* The odds of a football match as the dict passed to _calculate_value_bet.
FootballOdds(m) ==
    [o \in {"H", "D", "A"} |->
        IF o = "H" THEN m.odds.home ELSE IF o = "D" THEN m.odds.draw ELSE m.odds.away]

\* Lines 454-459, in units of 1/SS.
FootballHomeStrength(m) ==
    (((21 - m.home_rank) * 1200 + FootballFormValue(m.home_form) * 200) * 13) \div 10
FootballAwayStrength(m) ==
    (21 - m.away_rank) * 1000 + FootballFormValue(m.away_form) * 200

\* Lines 461-472: home, draw and away probability of the heuristic path.  The
\* second subtraction divides by home_prob + away_prob after home_prob was
\* lowered.  Raise stands for the ZeroDivisionError of lines 463, 470, 471.
HeuristicProbs(home_strength, away_strength) ==
    LET total_strength == home_strength + away_strength
    IN  IF total_strength = 0 THEN Raise
        ELSE
        LET home_prob == RoundDiv(home_strength * PS, total_strength)
            away_prob == RoundDiv(away_strength * PS, total_strength)
            draw_prob == PS - home_prob - away_prob
        IN  IF draw_prob < (15 * PS) \div 100
            THEN IF home_prob + away_prob = 0 THEN Raise
                 ELSE
                 LET adjustment == (15 * PS) \div 100 - draw_prob
                     home2 == home_prob
                                - FMul(adjustment, FDiv(home_prob, home_prob + away_prob))
                 IN  IF home2 + away_prob = 0 THEN Raise
                     ELSE [H |-> home2,
                           D |-> (15 * PS) \div 100,
                           A |-> away_prob
                                   - FMul(adjustment, FDiv(away_prob, home2 + away_prob))]
            ELSE [H |-> home_prob, D |-> draw_prob, A |-> away_prob]

\* Lines 529-531: expected goals, in units of 1/PS.
HomeXg(home_strength) == Max2(PS \div 2, RoundDiv(home_strength * PS, SS * 10))
AwayXg(away_strength) == Max2((3 * PS) \div 10, RoundDiv(away_strength * PS, SS * 12))

\* Lines 537-541: the loop over the score table assigns its Poisson factors
\* to home_prob and away_prob; after the loop they hold the factors of the
\* last cell, h = a = max_goals.
ProbsAfterScoreLoop(probs, home_xg, away_xg) ==
    [H |-> poisson_pmf(max_goals, home_xg),
     D |-> probs["D"],
     A |-> poisson_pmf(max_goals, away_xg)]

\* Lines 535-541: the table of score probabilities, keyed by <<h, a>>; a
\* cell is the exact product of its two Poisson factors (units of 1/PS^2).
ScoreProbs(home_xg, away_xg) ==
    LET home_pmf == [h \in 0..max_goals |-> poisson_pmf(h, home_xg)]
        away_pmf == [a \in 0..max_goals |-> poisson_pmf(a, away_xg)]
    IN  [c \in (0..max_goals) \X (0..max_goals) |-> home_pmf[c[1]] * away_pmf[c[2]]]

\* The position of a cell in the insertion order of the dict (lines 537-538:
\* h in the outer loop, a in the inner loop).
ScoreOrder(c) == c[1] * (max_goals + 1) + c[2]

\* The last of the most probable cells in insertion order.
CorrectScoreLast(score_probs) ==
    CHOOSE c \in DOMAIN score_probs :
        \A d \in DOMAIN score_probs :
            \/ score_probs[d] < score_probs[c]
            \/ score_probs[d] = score_probs[c] /\ ScoreOrder(d) <= ScoreOrder(c)

\* Line 544: max(score_probs, key=score_probs.get) is the first key, in
\* insertion order, whose value is the greatest.
CorrectScore(score_probs) ==
    CHOOSE c \in DOMAIN score_probs :
        \A d \in DOMAIN score_probs :
            \/ score_probs[d] < score_probs[c]
            \/ score_probs[d] = score_probs[c] /\ ScoreOrder(c) <= ScoreOrder(d)

\* A mutated outcome rule: home is compared with the draw only.
PredictedOutcomeHomeVsDraw(home_prob, draw_prob, away_prob) ==
    IF home_prob > draw_prob THEN "H"
    ELSE IF draw_prob > away_prob THEN "D" ELSE "A"

\* Lines 291 and 481: the predicted outcome of a football match.
PredictedOutcome(home_prob, draw_prob, away_prob) ==
    IF home_prob > Max2(draw_prob, away_prob) THEN "H"
    ELSE IF draw_prob > away_prob THEN "D" ELSE "A"

\* Lines 437-620.
statistical_football_prediction(m) ==
    IF {"homeTeam", "awayTeam"} \cap m.missing # {} THEN DegradedFootball(m)
    ELSE
    LET home_strength == FootballHomeStrength(m)
        away_strength == FootballAwayStrength(m)
        probs == HeuristicProbs(home_strength, away_strength)
    IN  IF IsRaise(probs) THEN DegradedFootball(m)
        ELSE
        LET predicted_outcome == PredictedOutcome(probs["H"], probs["D"], probs["A"])
            confidence == Max3(probs["H"], probs["D"], probs["A"])
            value_bet == calculate_value_bet(predicted_outcome, probs["H"], probs["D"],
                                             probs["A"], FootballOdds(m)).ret
            late == ProbsAfterScoreLoop(probs, HomeXg(home_strength),
                                        AwayXg(away_strength))
            score_probs == ScoreProbs(HomeXg(home_strength), AwayXg(away_strength))
        IN  IF m.missing # {} THEN DegradedFootball(m)
            ELSE [matchId |-> m.id, sport |-> "football",
                  predictedOutcome |-> predicted_outcome,
                  confidence |-> Pct2(confidence),
                  isPremium |-> confidence * 100 > 80 * PS,
                  valueBet |-> value_bet,
                  market |-> "1X2",
                  probability |-> [o \in {"H", "D", "A"} |-> Pct2(late[o])],
                  odds |-> FootballOdds(m),
                  path |-> "heuristic",
                  correctScore |-> CorrectScore(score_probs),
                  score_probs |-> score_probs,
                  locals |-> probs]

\* Lines 213-435.  model_probs is what predict_proba of the loaded 1X2 model
\* returns for the match, mapped to H, D, A by class label (lines 274-288).
predict_football_match(m, model_loaded, model_probs) ==
    IF ~model_loaded THEN statistical_football_prediction(m)
    ELSE IF m.missing # {} THEN statistical_football_prediction(m)
    ELSE
    LET predicted_outcome ==
            PredictedOutcome(model_probs["H"], model_probs["D"], model_probs["A"])
        confidence == Max3(model_probs["H"], model_probs["D"], model_probs["A"])
        value_bet == calculate_value_bet(predicted_outcome, model_probs["H"],
                                         model_probs["D"], model_probs["A"],
                                         FootballOdds(m)).ret
    IN  [matchId |-> m.id, sport |-> "football",
         predictedOutcome |-> predicted_outcome,
         confidence |-> Pct2(confidence),
         isPremium |-> confidence * 100 > 80 * PS,
         valueBet |-> value_bet,
         market |-> "1X2",
         probability |-> [o \in {"H", "D", "A"} |-> Pct2(model_probs[o])],
         odds |-> FootballOdds(m),
         path |-> "model",
         locals |-> model_probs]

\* ------------------------------------------------------- basketball

\* Lines 942-963: the fallback of predict_basketball_game; like the football
\* one it reads the match outside any try block.
DegradedBasketball(m) ==
    IF m.missing # {} THEN Raise
    ELSE [matchId |-> m.id, sport |-> "basketball", predictedOutcome |-> "H",
          confidence |-> 6000, isPremium |-> FALSE, valueBet |-> None,
          market |-> "Winner",
          probability |-> [o \in {"H", "A"} |-> IF o = "H" THEN 6000 ELSE 4000],
          odds |-> [o \in {"H", "A"} |-> IF o = "H" THEN 160 ELSE 240],
          path |-> "degraded",
          locals |-> [o \in {"H", "A"} |-> IF o = "H" THEN 6000 ELSE 4000]]

\* Lines 825-830, in units of 1/SS.
BasketballHomeStrength(m) ==
    (((16 - m.home_rank) * 1000 + BasketballFormValue(m.home_form) * 200
        + (m.home_offense - m.home_defense) * 100) * 12) \div 10
BasketballAwayStrength(m) ==
    (16 - m.away_rank) * 1000 + BasketballFormValue(m.away_form) * 200
      + (m.away_offense - m.away_defense) * 100

\* (prob - 1/odds) * 100 rounded to two decimals, in hundredths (lines 851,
\* 855, 859, 863): EdgeNum / (PS * odds) * 100 * 100.
BasketballValue(p, o) == RoundDiv(EdgeNum(p, o), (PS \div 10000) * o)


\* Line 843.
BasketballOutcome(home_prob, away_prob) ==
    IF home_prob > away_prob THEN "H" ELSE "A"

\* Lines 848-865.  Raise stands for the ZeroDivisionError of 1 / home_odds
\* (line 850) and of 1 / away_odds (line 858, reached only when the home
\* side has no value).
BasketballValueBet(home_prob, away_prob, home_odds, away_odds) ==
    IF home_odds = 0 THEN Raise
    ELSE IF EdgeGT(home_prob, home_odds, 0)
    THEN [outcome |-> "H", odds |-> home_odds,
          value |-> BasketballValue(home_prob, home_odds),
          isRecommended |-> EdgeGT(home_prob, home_odds, 5)]
    ELSE IF away_odds = 0 THEN Raise
    ELSE IF EdgeGT(away_prob, away_odds, 0)
    THEN [outcome |-> "A", odds |-> away_odds,
          value |-> BasketballValue(away_prob, away_odds),
          isRecommended |-> EdgeGT(away_prob, away_odds, 5)]
    ELSE None

\* Lines 794-963.
predict_basketball_game(m) ==
    IF {"homeTeam", "awayTeam"} \cap m.missing # {} THEN DegradedBasketball(m)
    ELSE
    LET home_strength == BasketballHomeStrength(m)
        away_strength == BasketballAwayStrength(m)
        total_strength == home_strength + away_strength
    IN  IF total_strength = 0 THEN DegradedBasketball(m)
        ELSE
        LET home_prob == RoundDiv(home_strength * PS, total_strength)
            away_prob == PS - home_prob
            predicted_outcome == BasketballOutcome(home_prob, away_prob)
            confidence == Max2(home_prob, away_prob)
            value_bet == BasketballValueBet(home_prob, away_prob,
                                            m.odds.home, m.odds.away)
        IN  IF IsRaise(value_bet) \/ m.missing # {} THEN DegradedBasketball(m)
            ELSE [matchId |-> m.id, sport |-> "basketball",
                  predictedOutcome |-> predicted_outcome,
                  confidence |-> Pct2(confidence),
                  isPremium |-> confidence * 100 > 75 * PS,
                  valueBet |-> value_bet,
                  market |-> "Winner",
                  probability |-> [o \in {"H", "A"} |->
                                     IF o = "H" THEN Pct2(home_prob) ELSE Pct2(away_prob)],
                  odds |-> [o \in {"H", "A"} |->
                              IF o = "H" THEN m.odds.home ELSE m.odds.away],
                  path |-> "heuristic",
                  locals |-> [o \in {"H", "A"} |->
                                IF o = "H" THEN home_prob ELSE away_prob]]

\* ------------------------------------------------------- predict_matches

\* Lines 984-996: the body of the loop for one match.  Raise is the
\* exception the inner except clause logs; the match then gets no entry.
PredictOne(m, sp, model_loaded) ==
    IF sp = "football" THEN predict_football_match(m, model_loaded, m.model_probs)
    ELSE predict_basketball_game(m)

\* --------------------------------------------------- generate_accumulator

Min2(a, b) == IF a <= b THEN a ELSE b

\* value_bet.get('tier', 'Tier 10'): the ValueBet of a basketball game
\* carries no tier.
ValueBetTier(value_bet) ==
    IF "tier" \in DOMAIN value_bet THEN value_bet.tier ELSE "Tier 10"
ValueBetEdge(value_bet) ==
    IF "edge" \in DOMAIN value_bet THEN value_bet.edge ELSE 0

\* A mutated filter: a prediction exactly at the threshold is left out.
ConfidentPredictionsStrict(preds, min_confidence) ==
    SelectSeq(preds, LAMBDA p : p.confidence > min_confidence * 100)

\* Line 1019: the predictions at or above the confidence threshold (a whole
\* percentage), in pool order.
ConfidentPredictions(preds, min_confidence) ==
    SelectSeq(preds, LAMBDA p : p.confidence >= min_confidence * 100)

\* Lines 1022-1030: for a target tier other than Tier 10, the predictions
\* whose ValueBet has that tier, when there are any.
FilterByTier(confident, target_tier) ==
    IF target_tier = "Tier 10" THEN confident
    ELSE LET with_value ==
               SelectSeq(confident,
                         LAMBDA p : ~IsNone(p.valueBet)
                                      /\ ValueBetTier(p.valueBet) = target_tier)
         IN  IF with_value # <<>> THEN with_value ELSE confident

\* Insertion of p into a list sorted by confidence, highest first, behind
\* the entries of equal confidence.
RECURSIVE InsertByConfidence(_, _)
InsertByConfidence(p, sorted) ==
    IF sorted = <<>> THEN <<p>>
    ELSE IF Head(sorted).confidence >= p.confidence
    THEN <<Head(sorted)>> \o InsertByConfidence(p, Tail(sorted))
    ELSE <<p>> \o sorted

\* Line 1033: list.sort(key=confidence, reverse=True), a stable sort: equal
\* confidences keep their pool order.
RECURSIVE SortByConfidence(_)
SortByConfidence(preds) ==
    IF preds = <<>> THEN <<>>
    ELSE InsertByConfidence(preds[Len(preds)],
                            SortByConfidence(SubSeq(preds, 1, Len(preds) - 1)))

\* Lines 1018-1036: the legs of one attempt.
TopPredictions(preds, size, min_confidence, target_tier) ==
    LET sorted == SortByConfidence(
                      FilterByTier(ConfidentPredictions(preds, min_confidence),
                                   target_tier))
    IN  SubSeq(sorted, 1, Min2(size, Len(sorted)))

\* A mutated ladder: Tier 1 relaxes to Tier 2, as Tier 2 does to Tier 5.
RelaxRungByRung(a) ==
    IF a.target_tier = "Tier 1"
    THEN [size |-> a.size, min_confidence |-> a.min_confidence - 5,
          target_tier |-> "Tier 2"]
    ELSE IF a.target_tier = "Tier 2"
    THEN [size |-> a.size, min_confidence |-> a.min_confidence - 5,
          target_tier |-> "Tier 5"]
    ELSE IF a.target_tier = "Tier 5"
    THEN [size |-> a.size, min_confidence |-> a.min_confidence - 5,
          target_tier |-> "Tier 10"]
    ELSE IF a.target_tier = "Tier 10" /\ a.min_confidence > 60
    THEN [size |-> a.size, min_confidence |-> a.min_confidence - 10,
          target_tier |-> "Tier 10"]
    ELSE None

\* A mutated ladder: the Tier 10 rung keeps lowering the threshold below 60.
RelaxNoFloor(a) ==
    IF a.target_tier \in {"Tier 1", "Tier 2"}
    THEN [size |-> a.size, min_confidence |-> a.min_confidence - 5,
          target_tier |-> "Tier 5"]
    ELSE IF a.target_tier = "Tier 5"
    THEN [size |-> a.size, min_confidence |-> a.min_confidence - 5,
          target_tier |-> "Tier 10"]
    ELSE IF a.target_tier = "Tier 10" /\ a.min_confidence > 20
    THEN [size |-> a.size, min_confidence |-> a.min_confidence - 10,
          target_tier |-> "Tier 10"]
    ELSE None

\* Lines 1042-1053: the arguments of the recursive call made when fewer than
\* size predictions qualify, or None when the ladder is exhausted.
Relax(a) ==
    IF a.target_tier \in {"Tier 1", "Tier 2"} /\ a.target_tier # "Tier 5"
    THEN [size |-> a.size, min_confidence |-> a.min_confidence - 5,
          target_tier |-> "Tier 5"]
    ELSE IF a.target_tier = "Tier 5"
    THEN [size |-> a.size, min_confidence |-> a.min_confidence - 5,
          target_tier |-> "Tier 10"]
    ELSE IF a.target_tier = "Tier 10" /\ a.min_confidence > 60
    THEN [size |-> a.size, min_confidence |-> a.min_confidence - 10,
          target_tier |-> "Tier 10"]
    ELSE None

\* Lines 1063-1089: outcome and odds of a leg: those of the ValueBet when it
\* has the target tier, else those of the predicted outcome in the market.
LegFromValueBet(pred, target_tier) ==
    /\ ~IsNone(pred.valueBet) /\ target_tier # "Tier 10"
    /\ ValueBetTier(pred.valueBet) = target_tier
LegOutcome(pred, target_tier) ==
    IF LegFromValueBet(pred, target_tier) THEN pred.valueBet.outcome
    ELSE pred.predictedOutcome
LegOdds(pred, target_tier) ==
    IF LegFromValueBet(pred, target_tier) THEN pred.valueBet.odds
    ELSE IF pred.sport = "football"
    THEN (IF pred.predictedOutcome = "H" THEN pred.odds["H"]
          ELSE IF pred.predictedOutcome = "D" THEN pred.odds["D"]
          ELSE pred.odds["A"])
    ELSE (IF pred.predictedOutcome = "H" THEN pred.odds["H"] ELSE pred.odds["A"])

\* Lines 1107-1120.
Selection(pred, target_tier) ==
    [matchId |-> pred.matchId, sport |-> pred.sport,
     market |-> IF pred.sport = "football" THEN "1X2" ELSE "Winner",
     outcome |-> LegOutcome(pred, target_tier),
     odds |-> LegOdds(pred, target_tier),
     confidence |-> pred.confidence,
     tier |-> IF ~IsNone(pred.valueBet) THEN ValueBetTier(pred.valueBet)
              ELSE "Tier 10"]

\* Exact product of decimal odds.  A number is a little-endian sequence of
\* base-100 digits; after n factors in hundredths its unit is 100^(-n).
RECURSIVE BigMul(_, _, _)
BigMul(digits, o, carry) ==
    IF digits = <<>>
    THEN IF carry = 0 THEN <<>>
         ELSE <<carry % 100>> \o BigMul(<<>>, o, carry \div 100)
    ELSE LET v == Head(digits) * o + carry
         IN  <<v % 100>> \o BigMul(Tail(digits), o, v \div 100)

RECURSIVE BigValue(_)
BigValue(digits) ==
    IF digits = <<>> THEN 0 ELSE Head(digits) + 100 * BigValue(Tail(digits))

\* Lines 1056, 1091: acca_odds = 1.0, then acca_odds *= odds for each leg.
RECURSIVE OddsProduct(_)
OddsProduct(selections) ==
    IF selections = <<>> THEN <<1>>
    ELSE BigMul(OddsProduct(SubSeq(selections, 1, Len(selections) - 1)),
                selections[Len(selections)].odds, 0)

\* The digits of a product of n factors below the hundredths, and above.
LowDigits(digits, n) == SubSeq(digits, 1, Min2(n - 1, Len(digits)))
HighDigits(digits, n) ==
    IF Len(digits) < n THEN <<>> ELSE SubSeq(digits, n, Len(digits))

\* A mutated rounding: the digits below the hundredths are cut off.
TruncatedOdds(digits, n) == BigValue(HighDigits(digits, n))

\* round(acca_odds, 2), in hundredths, of a product of n >= 1 factors.
RoundedOdds(digits, n) ==
    LET low == LowDigits(digits, n)
        high == BigValue(HighDigits(digits, n))
        top == IF Len(low) = n - 1 /\ n > 1 THEN low[n - 1] ELSE 0
        rest == \E i \in 1..(Len(low) - 1) : low[i] # 0
    IN  IF top < 50 THEN high
        ELSE IF top > 50 \/ rest THEN high + 1
        ELSE IF high % 2 = 0 THEN high ELSE high + 1

RECURSIVE SeqSum(_)
SeqSum(seq) == IF seq = <<>> THEN 0 ELSE Head(seq) + SeqSum(Tail(seq))

\* A mutated classification: the accumulator takes the tier of its first leg.
AccaTierOfFirstLeg(selections, target_tier) ==
    IF target_tier # "Tier 10" THEN target_tier ELSE selections[1].tier

\* Lines 1124-1135: the tier of the accumulator.
AccaTier(selections, target_tier) ==
    IF target_tier # "Tier 10" THEN target_tier
    ELSE IF \A i \in 1..Len(selections) : selections[i].tier = "Tier 1"
    THEN "Tier 1"
    ELSE IF \A i \in 1..Len(selections) : selections[i].tier \in {"Tier 1", "Tier 2"}
    THEN "Tier 2"
    ELSE IF \A i \in 1..Len(selections) :
               selections[i].tier \in {"Tier 1", "Tier 2", "Tier 5"}
    THEN "Tier 5"
    ELSE "Tier 10"

\* acca_odds > 10.0 for a product of n factors.
OddsAboveTen(digits, n) ==
    \/ BigValue(HighDigits(digits, n)) > 1000
    \/ /\ BigValue(HighDigits(digits, n)) = 1000
       /\ \E i \in 1..Len(LowDigits(digits, n)) : digits[i] # 0

\* Lines 1055-1151: the accumulator built from the legs; now is
\* int(time.time()).  With no leg the division of line 1144 raises
\* ZeroDivisionError.
BuildAccumulator(top_predictions, size, target_tier, now) ==
    LET selections == [i \in 1..Len(top_predictions) |->
                          Selection(top_predictions[i], target_tier)]
        acca_odds == OddsProduct(selections)
        n == Len(selections)
        total_confidence == SeqSum([i \in 1..Len(top_predictions) |->
                                       top_predictions[i].confidence])
        total_value == SeqSum([i \in 1..Len(top_predictions) |->
                                  IF IsNone(top_predictions[i].valueBet) THEN 0
                                  ELSE top_predictions[i].valueBet.value])
        total_edge == SeqSum([i \in 1..Len(top_predictions) |->
                                 IF IsNone(top_predictions[i].valueBet) THEN 0
                                 ELSE ValueBetEdge(top_predictions[i].valueBet)])
        acca_tier == AccaTier(selections, target_tier)
    IN  IF n = 0 THEN Raise ELSE
        [id |-> <<"acca", size, target_tier, now>>,
         createdAt |-> now,
         size |-> size,
         tier |-> acca_tier,
         totalOdds |-> RoundedOdds(acca_odds, n),
         confidence |-> RoundDiv(total_confidence, n),
         averageValue |-> IF total_value > 0 THEN RoundDiv(total_value, n) ELSE 0,
         averageEdge |-> IF total_edge > 0 THEN RoundDiv(total_edge, n) ELSE 0,
         selections |-> selections,
         isPremium |-> acca_tier \in {"Tier 1", "Tier 2"} \/ OddsAboveTen(acca_odds, n)]

\* The caller's list sorted in place, as predictions.sort(...) would leave it.
PoolSortedInPlace(preds) ==
    IF \E i \in 1..Len(preds) : IsNone(preds[i]) THEN preds
    ELSE SortByConfidence(preds)

\* Lines 1019-1036: the caller's list after a call.  The filter of line 1019
\* builds a new list; with_value (line 1023), the sort of line 1033 and the
\* slice of line 1036 work on new lists, and no prediction is written to.
PoolAfterCall(preds) == preds

\* Lines 1004-1155: a whole call of generate_accumulator, its recursive
\* calls included; now is int(time.time()) when the accumulator is built.
RECURSIVE generate_accumulator(_, _, _, _, _)
generate_accumulator(preds, size, min_confidence, target_tier, now) ==
    LET top_predictions == TopPredictions(preds, size, min_confidence, target_tier)
        relaxed == Relax([size |-> size, min_confidence |-> min_confidence,
                          target_tier |-> target_tier])
    IN  IF \E i \in 1..Len(preds) : IsNone(preds[i])
        THEN None   \* line 1019 raises on an entry that is None; line 1155
        ELSE IF Len(top_predictions) < size
        THEN IF IsNone(relaxed) THEN None
             ELSE generate_accumulator(preds, size, relaxed.min_confidence,
                                       relaxed.target_tier, now)
        ELSE LET built == BuildAccumulator(top_predictions, size, target_tier, now)
             IN  IF IsRaise(built) THEN None ELSE built

\* ------------------------------------------------------------ idle values

NoValueCall == [predicted_result |-> "H", home_prob |-> 0, draw_prob |-> 0,
                away_prob |-> 0, odds |-> [o \in {"H", "D", "A"} |-> 100]]
NoValueOut == [ret |-> None, raised |-> FALSE, values |-> <<>>]
NoAccCall == [size |-> 0, min_confidence |-> 0, target_tier |-> "Tier 10"]

PredictIdle ==
    /\ sport = "football" /\ has_model = FALSE /\ matches_data = <<>>
    /\ idx = 1 /\ predictions = <<>>
ValueIdle == vb_args = NoValueCall /\ vb_out = NoValueOut
AccIdle ==
    /\ pool = <<>> /\ acc_args = NoAccCall /\ attempts = <<>> /\ acc_out = None

\* Lines 1167-1180: the eight buckets, empty.
BucketNames ==
    {"tier1", "tier2", "tier5", "tier10", "small", "medium", "large", "mega"}
EmptyBuckets == [b \in BucketNames |-> <<>>]
MatrixIdle ==
    /\ all_predictions = <<>> /\ combo = 1 /\ accumulators = EmptyBuckets
    /\ clock = 0 /\ results = <<>>

ConfIdle == conf_args = None /\ conf_out = None
ApiIdle ==
    /\ request = None /\ is_initialized = FALSE /\ sport_idx = 1
    /\ api_matches = <<>>
    /\ api_predictions = <<>> /\ api_accumulators = None
    /\ sink_calls = <<>> /\ response = None
SchedIdle ==
    /\ is_running = FALSE /\ scheduler_thread = None /\ loops = <<>>
    /\ calls = <<>> /\ ncalls = 0
ServiceIdle == ConfIdle /\ ApiIdle /\ SchedIdle

\* Model probabilities as a classifier's predict_proba returns them:
\* multiples of 0.1 that sum to 1.
ProbGrid == {k * (PS \div 10) : k \in 0..10}
ProbTriples ==
    {t \in ProbGrid \X ProbGrid \X ProbGrid : t[1] + t[2] + t[3] = PS}

\* ------------------------------------------- specification of predict_matches

\* Longest batch of matches handed to predict_matches.
MaxBatch == 2

EvenProbs == [o \in {"H", "D", "A"} |-> IF o = "D" THEN (2 * PS) \div 10 ELSE (4 * PS) \div 10]

\* A well-formed match with the defaults the code assumes for absent team
\* attributes; model_probs is what the loaded 1X2 classifier answers for the
\* features of this match.
BaseMatch ==
    [id |-> 1, missing |-> {}, home_rank |-> 10, away_rank |-> 10,
     home_form |-> <<"W", "D", "L", "W", "W">>, away_form |-> <<"W", "D", "L", "W", "W">>,
     odds |-> [home |-> 200, draw |-> 350, away |-> 400],
     home_offense |-> 110, home_defense |-> 105,
     away_offense |-> 108, away_defense |-> 107,
     model_probs |-> EvenProbs]

Forms ==
    {<<>>, <<"W", "D", "L", "W", "W">>, <<"W", "W", "W", "W", "W">>,
     <<"W", "D", "D", "L", "L">>}

\* Rankings: the best, mid-table, the last of a 20-team league and rankings
\* beyond it.
FootballRanks == {1, 10, 20, 21, 25}

MatchOdds ==
    {[home |-> 200, draw |-> 350, away |-> 400],
     [home |-> 150, draw |-> 400, away |-> 600],
     [home |-> 260, draw |-> 320, away |-> 280],
     [home |-> 0, draw |-> 350, away |-> 600],
     [home |-> 250, draw |-> 350, away |-> -200],
     [home |-> 300, draw |-> 350, away |-> 0]}

\* Single football matches for the heuristic path.
HeuristicFootballMatches ==
    {[[[[[BaseMatch EXCEPT !.home_rank = hr] EXCEPT !.away_rank = ar]
           EXCEPT !.home_form = hf] EXCEPT !.away_form = af] EXCEPT !.odds = od] :
        hr \in FootballRanks, ar \in FootballRanks, hf \in Forms, af \in Forms,
        od \in MatchOdds}

\* Single football matches for the trained-model path: the classifier's
\* answer ranges over the probability grid.
ModelFootballMatches ==
    {[[BaseMatch EXCEPT !.odds = od]
        EXCEPT !.model_probs = [o \in {"H", "D", "A"} |->
                                  IF o = "H" THEN t[1] ELSE IF o = "D" THEN t[2] ELSE t[3]]] :
        od \in MatchOdds, t \in ProbTriples}

BasketballHomeRanks == {1, 11, 15, 16}
BasketballAwayRanks == {1, 10, 15, 16}
BasketballForms == {<<>>, <<"W", "W", "W", "W", "W">>}
HomeRatings == {<<110, 105>>, <<105, 105>>, <<100, 130>>}
AwayRatings == {<<108, 107>>, <<107, 107>>}
GameOdds ==
    {[home |-> 180, draw |-> 0, away |-> 220],
     [home |-> 0, draw |-> 0, away |-> 220],
     [home |-> 150, draw |-> 0, away |-> 0],
     [home |-> -150, draw |-> 0, away |-> 250],
     [home |-> 300, draw |-> 0, away |-> 140]}

\* Single basketball games.
BasketballGames ==
    {[[[[[[[[[BaseMatch EXCEPT !.home_rank = hr] EXCEPT !.away_rank = ar]
           EXCEPT !.home_form = hf] EXCEPT !.away_form = af]
           EXCEPT !.home_offense = h[1]] EXCEPT !.home_defense = h[2]]
           EXCEPT !.away_offense = a[1]] EXCEPT !.away_defense = a[2]]
           EXCEPT !.odds = od] :
        hr \in BasketballHomeRanks, ar \in BasketballAwayRanks,
        hf \in BasketballForms, af \in BasketballForms,
        h \in HomeRatings, a \in AwayRatings, od \in GameOdds}

\* The matches of a batch: three well-formed ones, and one that lacks each
\* key the predictor reads.
BatchMatches ==
    {[[BaseMatch EXCEPT !.home_rank = 1] EXCEPT !.away_rank = 20],
     [[[BaseMatch EXCEPT !.id = 2] EXCEPT !.home_rank = 12]
         EXCEPT !.model_probs = [o \in {"H", "D", "A"} |->
                                   IF o = "A" THEN (6 * PS) \div 10 ELSE (2 * PS) \div 10]],
     [[[[[BaseMatch EXCEPT !.id = 3] EXCEPT !.home_rank = 16] EXCEPT !.away_rank = 16]
         EXCEPT !.home_form = <<>>] EXCEPT !.away_form = <<>>]}
    \cup {[[BaseMatch EXCEPT !.id = 4] EXCEPT !.missing = {k}] : k \in RequiredKeys}

Batches == UNION {[1..n -> BatchMatches] : n \in 0..MaxBatch}

PredictInit ==
    /\ pc = "predict"
    /\ idx = 1
    /\ predictions = <<>>
    /\ \/ /\ sport = "football" /\ has_model = FALSE
          /\ \E m \in HeuristicFootballMatches : matches_data = <<m>>
       \/ /\ sport = "football" /\ has_model = TRUE
          /\ \E m \in ModelFootballMatches : matches_data = <<m>>
       \/ /\ sport = "basketball" /\ has_model = FALSE
          /\ \E m \in BasketballGames : matches_data = <<m>>
       \/ /\ sport \in {"football", "basketball", "tennis"}
          /\ has_model \in BOOLEAN
          /\ matches_data \in Batches
    /\ ValueIdle /\ AccIdle /\ MatrixIdle /\ ServiceIdle

\* Lines 980-996: one iteration of the loop of predict_matches for a
\* supported sport.  An exception of the predictor is logged and the match
\* gets no entry.
PredictMatch ==
    /\ pc = "predict" /\ idx <= Len(matches_data)
    /\ sport \in {"football", "basketball"}
    /\ LET prediction == PredictOne(matches_data[idx], sport, has_model)
       IN  predictions' = IF IsRaise(prediction) THEN predictions
                          ELSE Append(predictions, prediction)
    /\ idx' = idx + 1
    /\ UNCHANGED <<pc, sport, has_model, matches_data, value_vars, acc_vars, matrix_vars, service_vars>>

\* Lines 989-991: an unsupported sport is logged and the match skipped.
SkipUnsupported ==
    /\ pc = "predict" /\ idx <= Len(matches_data)
    /\ sport \notin {"football", "basketball"}
    /\ idx' = idx + 1
    /\ UNCHANGED <<pc, sport, has_model, matches_data, predictions, value_vars, acc_vars, matrix_vars, service_vars>>

\* Line 998: the loop is over and the list is returned.
PredictReturn ==
    /\ pc = "predict" /\ idx > Len(matches_data)
    /\ pc' = "done"
    /\ UNCHANGED <<predict_vars, value_vars, acc_vars, matrix_vars, service_vars>>

PredictNext == PredictMatch \/ SkipUnsupported \/ PredictReturn

Spec == PredictInit /\ [][PredictNext]_vars

\* The predictions emitted so far.
Emitted == {predictions[k] : k \in 1..Len(predictions)}

\* C1: for football and basketball predict_matches returns exactly one
\* Prediction per input match, in input order; a match that lacks a key the
\* predictor reads gets the degraded Prediction (outcome H, confidence 60,
\* no ValueBet) instead of being omitted.
C1_OnePredictionPerMatch ==
    (pc = "done" /\ sport \in {"football", "basketball"}) =>
        /\ Len(predictions) = Len(matches_data)
        /\ \A k \in 1..Len(matches_data) :
              matches_data[k].missing # {} =>
                  /\ predictions[k].path = "degraded"
                  /\ predictions[k].predictedOutcome = "H"
                  /\ predictions[k].confidence = 6000
                  /\ IsNone(predictions[k].valueBet)

\* Sum of the serialised primary-outcome probabilities, in hundredths of a
\* percent.
ProbabilitySum(p) ==
    IF p.market = "1X2"
    THEN p.probability["H"] + p.probability["D"] + p.probability["A"]
    ELSE p.probability["H"] + p.probability["A"]

\* C2: the primary-outcome probabilities serialised in every emitted
\* Prediction sum to within 0.01 of 1.0 (one percentage point of 100).
C2_ProbabilitiesSumToOne ==
    \A p \in Emitted : Abs(ProbabilitySum(p) - 10000) <= 100

\* C3: the confidence of every emitted Prediction lies in [0, 100].
C3_ConfidenceInRange ==
    \A p \in Emitted : p.confidence >= 0 /\ p.confidence <= 10000

\* The outcomes of the primary market of a prediction, and their fixed order
\* home, draw, away.
MarketOutcomes(p) == DOMAIN p.locals
OutcomeOrder(o) == IF o = "H" THEN 1 ELSE IF o = "D" THEN 2 ELSE 3

\* The predicted outcome has maximal probability.
IsArgmax(p) ==
    \A o \in MarketOutcomes(p) : p.locals[p.predictedOutcome] >= p.locals[o]

\* Two or more outcomes share the maximal probability.
HasTie(p) ==
    \E a, b \in MarketOutcomes(p) :
        /\ a # b /\ p.locals[a] = p.locals[b]
        /\ \A o \in MarketOutcomes(p) : p.locals[a] >= p.locals[o]

\* C4 as stated: the predicted outcome is an outcome of maximal probability
\* and among tied maxima the priority is home > draw > away.
C4_AsStated ==
    \A p \in Emitted :
        /\ IsArgmax(p)
        /\ \A o \in MarketOutcomes(p) :
              p.locals[o] = p.locals[p.predictedOutcome]
                => OutcomeOrder(p.predictedOutcome) <= OutcomeOrder(o)

\* C4 amended: the predicted outcome is an outcome of maximal probability
\* and among tied maxima the priority is away > draw > home (away > home for
\* basketball): home is chosen only when strictly ahead of both others, draw
\* only when strictly ahead of away.
C4_ArgmaxAwayFirst ==
    \A p \in Emitted :
        /\ IsArgmax(p)
        /\ \A o \in MarketOutcomes(p) :
              p.locals[o] = p.locals[p.predictedOutcome]
                => OutcomeOrder(p.predictedOutcome) >= OutcomeOrder(o)

\* C4 witness: a football Prediction of the trained-model path in which home
\* and another outcome tie for the maximum, and the other outcome is chosen.
C4_Witness ==
    \E p \in Emitted :
        /\ p.path = "model" /\ HasTie(p)
        /\ p.locals["H"] = p.locals[p.predictedOutcome]
        /\ p.predictedOutcome # "H"

\* value% recomputed from the model probability p and the odds o of the
\* ValueBet's own outcome: (p - 1/o) / (1/o) * 100, in hundredths.
RecomputedValue(p, o) == RoundDiv(EdgeNum(p, o), PS \div 100)

\* C7: the value stored in every non-null ValueBet attached to a Prediction
\* equals (p - 1/odds) / (1/odds) * 100 up to the two-decimal rounding.
C7_StoredValueIsValuePct ==
    \A p \in Emitted :
        ~IsNone(p.valueBet) =>
            Abs(p.valueBet.value
                  - RecomputedValue(p.locals[p.valueBet.outcome], p.valueBet.odds)) <= 1

\* C9: with odds <= 0 on some outcome the value computation still evaluates
\* the other outcomes, so that a ValueBet is attached when an outcome of
\* valid odds has value% above the 5% threshold; and a basketball game of
\* well-formed teams still gets a Prediction computed from its data.
C9_NonPositiveOddsGuarded ==
    /\ \A p \in Emitted :
          (/\ p.path \in {"model", "heuristic"} /\ p.sport = "football"
           /\ \E o \in {"H", "D", "A"} : p.odds[o] <= 0
           /\ \E o \in {"H", "D", "A"} :
                 p.odds[o] > 0 /\ RoundedValue(p.locals[o], p.odds[o]) > 500)
          => ~IsNone(p.valueBet)
    /\ (/\ sport = "basketball" /\ Len(matches_data) = 1 /\ Len(predictions) = 1
        /\ matches_data[1].odds.home <= 0 \/ matches_data[1].odds.away <= 0
        /\ BasketballHomeStrength(matches_data[1])
             + BasketballAwayStrength(matches_data[1]) # 0)
       => predictions[1].path # "degraded"

\* ------------------------------------- specification of _calculate_value_bet

\* Decimal odds (hundredths) on either side of every odds threshold of the
\* tier table, odds 0 and negative odds.
OddsValues == {-200, 0, 150, 170, 220, 250, 280, 320, 380, 600}
DrawOddsValues == {0, 220, 320, 380}

ValueInit ==
    /\ pc = "vb_call"
    /\ vb_args \in [predicted_result : {"H", "D", "A"},
                    home_prob : ProbGrid, draw_prob : ProbGrid,
                    away_prob : ProbGrid,
                    odds : [{"H", "D", "A"} -> OddsValues]]
    /\ <<vb_args.home_prob, vb_args.draw_prob, vb_args.away_prob>> \in ProbTriples
    /\ vb_args.odds["D"] \in DrawOddsValues
    /\ vb_out = NoValueOut
    /\ PredictIdle /\ AccIdle /\ MatrixIdle /\ ServiceIdle

CalculateValueBet ==
    /\ pc = "vb_call"
    /\ vb_out' = calculate_value_bet(vb_args.predicted_result, vb_args.home_prob,
                                     vb_args.draw_prob, vb_args.away_prob,
                                     vb_args.odds)
    /\ pc' = "vb_done"
    /\ UNCHANGED <<vb_args, predict_vars, acc_vars, matrix_vars, service_vars>>

ValueNext == CalculateValueBet

SpecValue == ValueInit /\ [][ValueNext]_vars

\* The probability and the odds of outcome o in the call under check.
ArgProb(o) ==
    IF o = "H" THEN vb_args.home_prob
    ELSE IF o = "D" THEN vb_args.draw_prob ELSE vb_args.away_prob
ArgOdds(o) == vb_args.odds[o]
ValuesBuilt == pc = "vb_done" /\ ~vb_out.raised

\* Strictness of a tier: lower is stricter.
TierRank(t) ==
    IF t = "Tier 1" THEN 1 ELSE IF t = "Tier 2" THEN 2
    ELSE IF t = "Tier 5" THEN 3 ELSE 4

\* The tier table of the specification, rows applied top to bottom, the
\* first matching row winning.
TableTier(p, o) ==
    IF ValueGT(p, o, 20) /\ EdgeGT(p, o, 20) /\ o < 180 THEN "Tier 1"
    ELSE IF ValueGT(p, o, 15) /\ EdgeGT(p, o, 15) /\ o < 350 THEN "Tier 2"
    ELSE IF ValueGT(p, o, 15) /\ EdgeGT(p, o, 15) /\ o >= 350 THEN "Tier 5"
    ELSE IF ValueGT(p, o, 10) /\ EdgeGT(p, o, 10) /\ o < 250 THEN "Tier 2"
    ELSE IF ValueGT(p, o, 10) /\ EdgeGT(p, o, 10) /\ o < 400 THEN "Tier 5"
    ELSE IF ValueGT(p, o, 5) /\ EdgeGT(p, o, 5)
    THEN IF o < 300 THEN "Tier 5" ELSE "Tier 10"
    ELSE "Tier 10"

\* C5: the tier the if/elif chain with its trailing Tier 1 override assigns
\* to each outcome equals the tier of the specified table read top to bottom
\* with the first matching row winning.
C5_TierMatchesTable ==
    ValuesBuilt =>
        \A o \in {"H", "D", "A"} :
            vb_out.values[o].tier = TableTier(ArgProb(o), ArgOdds(o))

\* C5 witness: a call in which the trailing override turned the Tier 2 of
\* the chain into Tier 1 for one outcome while another outcome kept the
\* default tier.
C5_Witness ==
    /\ ValuesBuilt
    /\ \E o \in {"H", "D", "A"} :
          /\ vb_out.values[o].tier = "Tier 1"
          /\ ValueGT(ArgProb(o), ArgOdds(o), 15) /\ ArgOdds(o) < 200
    /\ \E o \in {"H", "D", "A"} : vb_out.values[o].tier = "Tier 10"

\* C6: at equal odds an outcome of strictly higher value% never gets a worse
\* tier than an outcome of lower value% (Tier 1 > Tier 2 > Tier 5 > Tier 10).
C6_TierMonotonic ==
    ValuesBuilt =>
        \A x, y \in {"H", "D", "A"} :
            (ArgOdds(x) = ArgOdds(y)
               /\ ValuePctNum(ArgProb(x), ArgOdds(x)) > ValuePctNum(ArgProb(y), ArgOdds(y)))
            => TierRank(vb_out.values[x].tier) <= TierRank(vb_out.values[y].tier)

\* C6 witness: two outcomes at the same odds, the one of higher value% in a
\* strictly better tier.
C6_Witness ==
    /\ ValuesBuilt
    /\ \E x, y \in {"H", "D", "A"} :
          /\ ArgOdds(x) = ArgOdds(y)
          /\ ValuePctNum(ArgProb(x), ArgOdds(x)) > ValuePctNum(ArgProb(y), ArgOdds(y))
          /\ TierRank(vb_out.values[x].tier) < TierRank(vb_out.values[y].tier)
          /\ ValuePctNum(ArgProb(y), ArgOdds(y)) > 0

\* The outcome of best value%, independently of the predicted outcome.
BestOfCall == BestValue(vb_out.values)

\* First half of C8: a ValueBet is returned only if the predicted outcome's
\* value% is >= 0 or a different outcome has the best value%, above 5.
C8_OnlyIf ==
    (ValuesBuilt /\ ~IsNone(vb_out.ret)) =>
        \/ vb_out.values[vb_args.predicted_result].value >= 0
        \/ /\ BestOfCall # vb_args.predicted_result
           /\ vb_out.values[BestOfCall].value > 500

\* The returned ValueBet reports the independently-best outcome, which is
\* not the predicted one.
ReportsOtherBest ==
    /\ ValuesBuilt /\ ~IsNone(vb_out.ret)
    /\ vb_out.ret.outcome = BestOfCall
    /\ BestOfCall # vb_args.predicted_result

\* C8 as stated: the ValueBet is returned only in the two cases, and a
\* ValueBet on the best outcome, when that differs from the predicted one,
\* has isRecommended = True.
C8_AsStated ==
    /\ C8_OnlyIf
    /\ ReportsOtherBest => vb_out.ret.isRecommended

\* C8 amended: the ValueBet is returned only in the two cases, and a ValueBet
\* on the best outcome, when that differs from the predicted one, has
\* isRecommended = True exactly when its value% exceeds 10.
C8_RecommendedAbove10 ==
    /\ C8_OnlyIf
    /\ ReportsOtherBest => (vb_out.ret.isRecommended <=> vb_out.ret.value > 1000)

\* C8 witness: the best outcome is not the predicted one, its value% lies in
\* (5, 10] and it is returned without the recommendation.
C8_Witness ==
    /\ ReportsOtherBest
    /\ vb_out.ret.value > 500 /\ vb_out.ret.value <= 1000
    /\ ~vb_out.ret.isRecommended

\* -------------------------------------- specification of generate_accumulator

MaxPool == 3
MaxSize == 3

TierNames == {"Tier 1", "Tier 2", "Tier 5", "Tier 10"}

\* The confidence thresholds generate_accumulators passes (lines 1188-1223).
EntryConfidences == {85, 80, 75, 65}

ModelMatch(id, h, d, a, oh, od, oa) ==
    [[[BaseMatch EXCEPT !.id = id]
        EXCEPT !.odds = [home |-> oh, draw |-> od, away |-> oa]]
        EXCEPT !.model_probs = [o \in {"H", "D", "A"} |->
                                  ((IF o = "H" THEN h ELSE IF o = "D" THEN d ELSE a) * PS)
                                      \div 100]]

\* The matches behind the pool, each with its sport and whether the football
\* model is loaded.
PoolMatches ==
    {<<ModelMatch(1, 90, 10, 0, 150, 400, 600), "football", TRUE>>,
     <<ModelMatch(2, 85, 10, 5, 170, 400, 600), "football", TRUE>>,
     <<ModelMatch(3, 85, 10, 5, 225, 400, 600), "football", TRUE>>,
     <<ModelMatch(4, 70, 20, 10, 380, 350, 600), "football", TRUE>>,
     <<ModelMatch(5, 60, 30, 10, 150, 300, 600), "football", TRUE>>,
     <<[BaseMatch EXCEPT !.id = 6], "basketball", FALSE>>,
     <<ModelMatch(7, 75, 15, 10, 150, 400, 600), "football", TRUE>>,
     <<ModelMatch(11, 65, 5, 30, 150, 400, 700), "football", TRUE>>}

\* Further football matches, for pools large enough for the accumulators
\* of six to ten legs.
ExtraPoolMatches ==
    {<<ModelMatch(8, 75, 15, 10, 150, 400, 600), "football", TRUE>>,
     <<ModelMatch(9, 65, 25, 10, 150, 350, 600), "football", TRUE>>,
     <<ModelMatch(10, 65, 25, 10, 150, 350, 600), "football", TRUE>>}

AllPoolPredictions ==
    {PredictOne(x[1], x[2], x[3]) : x \in PoolMatches \cup ExtraPoolMatches}

\* The pool: predictions of the football predictor with a loaded model and
\* of the basketball predictor, of every tier and with no ValueBet.
PoolPredictions ==
    {p \in AllPoolPredictions : \E x \in PoolMatches : x[1].id = p.matchId}

Pools ==
    UNION {{q \in [1..n -> PoolPredictions] :
               \A i, j \in 1..n : i # j => q[i].matchId # q[j].matchId} :
           n \in 0..MaxPool}

\* int(time.time()) at the moment the accumulator is built.
Clock == {0, 1}

AccInit ==
    /\ pc = "acc_call"
    /\ pool \in Pools
    /\ acc_args \in [size : 0..MaxSize, min_confidence : EntryConfidences,
                     target_tier : TierNames]
    /\ attempts = <<>>
    /\ acc_out = None
    /\ PredictIdle /\ ValueIdle /\ MatrixIdle /\ ServiceIdle

\* The legs the attempt in progress selects.
AttemptLegs ==
    TopPredictions(pool, acc_args.size, acc_args.min_confidence, acc_args.target_tier)

\* Lines 1038-1050: fewer than size predictions qualify and the ladder has a
\* next rung: generate_accumulator calls itself with the relaxed arguments.
AccRelax ==
    /\ pc = "acc_call"
    /\ Len(AttemptLegs) < acc_args.size
    /\ ~IsNone(Relax(acc_args))
    /\ attempts' = Append(attempts, acc_args)
    /\ acc_args' = Relax(acc_args)
    /\ pool' = PoolAfterCall(pool)
    /\ UNCHANGED <<pc, acc_out, predict_vars, value_vars, matrix_vars, service_vars>>

\* Lines 1051-1053: fewer than size predictions qualify and the ladder is
\* exhausted: None is returned.
AccFail ==
    /\ pc = "acc_call"
    /\ Len(AttemptLegs) < acc_args.size
    /\ IsNone(Relax(acc_args))
    /\ attempts' = Append(attempts, acc_args)
    /\ acc_out' = None
    /\ pc' = "acc_done"
    /\ pool' = PoolAfterCall(pool)
    /\ UNCHANGED <<acc_args, predict_vars, value_vars, matrix_vars, service_vars>>

\* Lines 1055-1155: enough predictions qualify: the accumulator is built and
\* returned; an exception raised on the way is logged and None is returned.
AccBuild ==
    /\ pc = "acc_call"
    /\ Len(AttemptLegs) >= acc_args.size
    /\ attempts' = Append(attempts, acc_args)
    /\ \E now \in Clock :
           LET built == BuildAccumulator(AttemptLegs, acc_args.size,
                                         acc_args.target_tier, now)
           IN  acc_out' = IF IsRaise(built) THEN None ELSE built
    /\ pc' = "acc_done"
    /\ pool' = PoolAfterCall(pool)
    /\ UNCHANGED <<acc_args, predict_vars, value_vars, matrix_vars, service_vars>>

AccNext == AccRelax \/ AccFail \/ AccBuild

SpecAcc == AccInit /\ [][AccNext]_vars

\* The attempts made so far, the one in progress included.
AllAttempts ==
    IF pc = "acc_call" THEN Append(attempts, acc_args) ELSE attempts

MaxClock == 1

\* Lines 1186-1223: the calls generate_accumulators makes, in order.
Matrix ==
    <<[size |-> 2, min_confidence |-> 85, target_tier |-> "Tier 1"],
      [size |-> 3, min_confidence |-> 80, target_tier |-> "Tier 1"],
      [size |-> 2, min_confidence |-> 75, target_tier |-> "Tier 2"],
      [size |-> 3, min_confidence |-> 75, target_tier |-> "Tier 2"],
      [size |-> 4, min_confidence |-> 75, target_tier |-> "Tier 2"],
      [size |-> 3, min_confidence |-> 65, target_tier |-> "Tier 5"],
      [size |-> 4, min_confidence |-> 65, target_tier |-> "Tier 5"],
      [size |-> 5, min_confidence |-> 65, target_tier |-> "Tier 5"],
      [size |-> 6, min_confidence |-> 65, target_tier |-> "Tier 5"],
      [size |-> 4, min_confidence |-> 75, target_tier |-> "Tier 10"],
      [size |-> 6, min_confidence |-> 65, target_tier |-> "Tier 10"],
      [size |-> 8, min_confidence |-> 55, target_tier |-> "Tier 10"],
      [size |-> 10, min_confidence |-> 50, target_tier |-> "Tier 10"]>>

\* The tier-keyed bucket a result of call c is appended to.
TierBucket(c) ==
    IF c.target_tier = "Tier 1" THEN "tier1"
    ELSE IF c.target_tier = "Tier 2" THEN "tier2"
    ELSE IF c.target_tier = "Tier 5" THEN "tier5" ELSE "tier10"

\* The size-keyed bucket a result of call c is appended to (lines 1190,
\* 1195, 1203-1206, 1214-1219, 1228-1233).
SizeBucket(c) ==
    IF c.target_tier = "Tier 1" THEN "small"
    ELSE IF c.target_tier = "Tier 2"
    THEN (IF c.size <= 3 THEN "small" ELSE "medium")
    ELSE IF c.target_tier = "Tier 5"
    THEN (IF c.size <= 3 THEN "small" ELSE IF c.size <= 5 THEN "medium" ELSE "large")
    ELSE (IF c.size <= 5 THEN "medium" ELSE IF c.size <= 8 THEN "large" ELSE "mega")

\* Lists of match ids: every list of up to MaxPool distinct ids of S.
IdLists(S) ==
    UNION {{q \in [1..n -> S] : \A i, j \in 1..n : q[i] = q[j] => i = j} :
              n \in 0..MaxPool}

\* The football lists of all_predictions, by match id: the lists of up to
\* MaxPool football matches of the pool, one list of nine, one of four, and
\* lists with an entry that is None (id 0).
FootballIdLists ==
    IdLists({x[1].id : x \in {y \in PoolMatches : y[2] = "football"}})
      \cup {<<1, 2, 3, 4, 5, 7, 8, 9, 10>>, <<1, 3, 4, 7>>, <<0>>, <<1, 0, 2>>}
BasketballIdLists ==
    {q \in IdLists({x[1].id : x \in {y \in PoolMatches : y[2] = "basketball"}}) :
        Len(q) <= 1}

\* The lists of predictions of the matches named by the lists of ids x.
PredictionLists(x) ==
    [s \in 1..Len(x) |->
        [i \in 1..Len(x[s]) |->
            IF x[s][i] = 0 THEN None
            ELSE CHOOSE p \in AllPoolPredictions : p.matchId = x[s][i]]]

RECURSIVE Flatten(_)
Flatten(lists) ==
    IF lists = <<>> THEN <<>> ELSE Head(lists) \o Flatten(Tail(lists))

MatrixInit ==
    /\ pc = "matrix_combine"
    /\ \E f \in FootballIdLists, b \in BasketballIdLists :
          all_predictions = PredictionLists(<<f, b>>)
    /\ combo = 1 /\ accumulators = EmptyBuckets /\ clock = 0 /\ results = <<>>
    /\ PredictIdle /\ ValueIdle /\ AccIdle /\ ServiceIdle

\* Lines 1183-1185: the predictions of all sports are combined in one list.
MatrixCombine ==
    /\ pc = "matrix_combine"
    /\ pool' = Flatten(all_predictions)
    /\ pc' = "matrix"
    /\ UNCHANGED <<acc_args, attempts, acc_out, all_predictions, combo,
                   accumulators, clock, results, predict_vars, value_vars, service_vars>>

\* A failed call ends the batch.
AbortOnFailure(c, acca) == IF IsNone(acca) THEN Len(Matrix) + 1 ELSE c + 1

\* Lines 1188-1234: the calls follow one another, whatever a call returned.
NextCombo(c, acca) == c + 1

\* Lines 1186-1233: one call of the matrix; a result that is not None is
\* appended to the bucket of the requested tier and to a size bucket.
MatrixCall ==
    /\ pc = "matrix" /\ combo <= Len(Matrix)
    /\ LET c == Matrix[combo]
           acca == generate_accumulator(pool, c.size, c.min_confidence,
                                        c.target_tier, clock)
       IN  /\ results' = Append(results, acca)
           /\ accumulators' =
                 IF IsNone(acca) THEN accumulators
                 ELSE [accumulators EXCEPT
                          ![TierBucket(c)] = Append(@, acca),
                          ![SizeBucket(c)] = Append(@, acca)]
           /\ combo' = NextCombo(combo, acca)
    /\ pool' = PoolAfterCall(pool)
    /\ UNCHANGED <<pc, acc_args, attempts, acc_out, all_predictions, clock,
                   predict_vars, value_vars, service_vars>>

\* The wall clock passes to the next second between two calls.
Tick ==
    /\ pc = "matrix" /\ clock < MaxClock
    /\ clock' = clock + 1
    /\ UNCHANGED <<pc, acc_vars, all_predictions, combo, accumulators, results,
                   predict_vars, value_vars, service_vars>>

\* Line 1245: the buckets are returned.
MatrixReturn ==
    /\ pc = "matrix" /\ combo > Len(Matrix)
    /\ pc' = "matrix_done"
    /\ UNCHANGED <<acc_vars, matrix_vars, predict_vars, value_vars, service_vars>>

MatrixNext == MatrixCombine \/ MatrixCall \/ Tick \/ MatrixReturn

SpecMatrix == MatrixInit /\ [][MatrixNext]_vars

\* The number of Tier 10 attempts a call can make from threshold mc: one,
\* and one more for every 10 points above 60.
Tier10Attempts(mc) == IF mc <= 60 THEN 1 ELSE 1 + (mc - 60 + 9) \div 10

\* The greatest number of attempts a call with arguments a can make.
LadderBound(a) ==
    IF a.target_tier \in {"Tier 1", "Tier 2"}
    THEN 2 + Tier10Attempts(a.min_confidence - 10)
    ELSE IF a.target_tier = "Tier 5" THEN 1 + Tier10Attempts(a.min_confidence - 5)
    ELSE Tier10Attempts(a.min_confidence)

\* C11: every call of generate_accumulator terminates: the number of
\* attempts never exceeds a bound fixed by the arguments of the call, each
\* relaxation moves to a strictly weaker tier or lowers the Tier 10
\* threshold by 10 from a value above 60, and the call ends with an
\* accumulator of size legs or with None.
C11_Terminates ==
    /\ Len(AllAttempts) <= LadderBound(AllAttempts[1])
    /\ \A k \in 1..(Len(AllAttempts) - 1) :
          LET a == AllAttempts[k]
              b == AllAttempts[k + 1]
          IN  \/ TierRank(b.target_tier) > TierRank(a.target_tier)
              \/ /\ a.target_tier = "Tier 10" /\ b.target_tier = "Tier 10"
                 /\ a.min_confidence > 60
                 /\ b.min_confidence = a.min_confidence - 10
    /\ pc = "acc_done" =>
          \/ IsNone(acc_out)
          \/ Len(acc_out.selections) = attempts[Len(attempts)].size

\* C11 witness: a call that ran down the whole ladder, made as many
\* attempts as the bound allows and returned None.
C11_Witness ==
    /\ pc = "acc_done" /\ IsNone(acc_out)
    /\ attempts[1].target_tier = "Tier 1"
    /\ Len(attempts) = LadderBound(attempts[1])
    /\ Len(attempts) >= 5

\* The number of predictions of the pool at or above threshold mc.
CountConfident(mc) ==
    Cardinality({i \in 1..Len(pool) : pool[i].confidence >= mc * 100})

\* The last attempt of a finished call.
LastAttempt == attempts[Len(attempts)]

\* The pool holds exactly two predictions, both with a Tier 1 ValueBet and
\* confidence 85 or more.
TwoTier1Pool ==
    /\ Len(pool) = 2
    /\ \A i \in 1..2 :
          /\ pool[i].confidence >= 8500
          /\ ~IsNone(pool[i].valueBet)
          /\ ValueBetTier(pool[i].valueBet) = "Tier 1"

\* C12: for size >= 1 generate_accumulator never raises; it returns None
\* only when the last rung of the ladder (Tier 10 with threshold 60 or
\* less) still leaves fewer than size predictions at or above its
\* threshold, and then it does return None; an accumulator it returns has
\* size legs.  In particular size 3, min_confidence 85, Tier 1 over a pool
\* of two Tier 1 predictions of confidence >= 85 returns None.
C12_InsufficientPoolIsNone ==
    (pc = "acc_done" /\ attempts[1].size >= 1) =>
        /\ ~IsRaise(acc_out)
        /\ IsNone(acc_out) =>
              /\ LastAttempt.target_tier = "Tier 10"
              /\ LastAttempt.min_confidence <= 60
              /\ CountConfident(LastAttempt.min_confidence) < LastAttempt.size
        /\ ~IsNone(acc_out) =>
              /\ CountConfident(LastAttempt.min_confidence) >= LastAttempt.size
              /\ Len(acc_out.selections) = LastAttempt.size
        /\ (/\ attempts[1] = [size |-> 3, min_confidence |-> 85,
                              target_tier |-> "Tier 1"]
            /\ TwoTier1Pool)
              => IsNone(acc_out)

\* C12 witness: the call of the scenario has run down the ladder and
\* returned None.
C12_Witness ==
    /\ pc = "acc_done" /\ IsNone(acc_out)
    /\ attempts[1] = [size |-> 3, min_confidence |-> 85, target_tier |-> "Tier 1"]
    /\ TwoTier1Pool
    /\ LastAttempt.target_tier = "Tier 10"

\* The predictions that qualify for the last attempt of a finished call.
QualifyingPool ==
    FilterByTier(ConfidentPredictions(pool, LastAttempt.min_confidence),
                 LastAttempt.target_tier)

\* Prediction or leg x comes before y in the order of the specification:
\* confidence descending, equal confidences by match id ascending.
Before(x, y) ==
    \/ x.confidence > y.confidence
    \/ x.confidence = y.confidence /\ x.matchId < y.matchId

\* C13: the legs of a returned accumulator are the first size entries of
\* the qualifying pool ordered by confidence descending, equal confidences
\* by match id ascending: the legs are in that order and no qualifying
\* prediction left out comes before a leg.
C13_LegsOrderedByConfidenceThenId ==
    (pc = "acc_done" /\ ~IsNone(acc_out)) =>
        LET legs == acc_out.selections
        IN  /\ \A i, j \in 1..Len(legs) : i < j => Before(legs[i], legs[j])
            /\ \A k \in 1..Len(QualifyingPool) :
                  (\A i \in 1..Len(legs) : legs[i].matchId # QualifyingPool[k].matchId)
                    => \A i \in 1..Len(legs) : Before(legs[i], QualifyingPool[k])

\* A call has returned an accumulator.
Built == pc = "acc_done" /\ ~IsNone(acc_out)

\* The exact product of the odds stored in the selections of the returned
\* accumulator: its hundredths, and its digits below the hundredths.
LegsProduct == OddsProduct(acc_out.selections)
ProductHundredths == BigValue(HighDigits(LegsProduct, Len(acc_out.selections)))
ProductRest == LowDigits(LegsProduct, Len(acc_out.selections))
RestIsZero == \A i \in 1..Len(ProductRest) : ProductRest[i] = 0

\* The digits below the hundredths are at most, at least, half a hundredth.
RestAtMostHalf ==
    \/ RestIsZero
    \/ ProductRest[Len(ProductRest)] < 50
    \/ /\ ProductRest[Len(ProductRest)] = 50
       /\ \A i \in 1..(Len(ProductRest) - 1) : ProductRest[i] = 0
RestAtLeastHalf == ~RestIsZero /\ ProductRest[Len(ProductRest)] >= 50

\* C14 as stated: the stored totalOdds equals the product of the odds of the
\* selections within 1e-6; odds have two decimals, so the product must have
\* no digit below the hundredths and totalOdds must be its hundredths.
C14_AsStated ==
    Built => (RestIsZero /\ acc_out.totalOdds = ProductHundredths)

\* C14, amended: the stored totalOdds is the product of the odds of the
\* selections rounded to two decimals: it differs from the product by at
\* most 0.005.
C14_TotalOddsIsRoundedProduct ==
    Built =>
        \/ acc_out.totalOdds = ProductHundredths /\ RestAtMostHalf
        \/ acc_out.totalOdds = ProductHundredths + 1 /\ RestAtLeastHalf

\* C14 witness: an accumulator of two or more legs whose product has digits
\* below the hundredths and was rounded up.
C14_Witness ==
    /\ Built /\ Len(acc_out.selections) >= 2
    /\ ~RestIsZero
    /\ acc_out.totalOdds = ProductHundredths + 1

\* The confidences of the legs of the returned accumulator.
LegConfidences == {acc_out.selections[i].confidence : i \in 1..Len(acc_out.selections)}
MaxLegConfidence == CHOOSE c \in LegConfidences : \A d \in LegConfidences : c >= d
MinLegConfidence == CHOOSE c \in LegConfidences : \A d \in LegConfidences : c <= d

\* c times 0.95^k, rounded up and rounded down.
RECURSIVE PenalisedUp(_, _)
PenalisedUp(c, k) ==
    IF k = 0 THEN c ELSE (PenalisedUp(c, k - 1) * 95 + 99) \div 100
RECURSIVE PenalisedDown(_, _)
PenalisedDown(c, k) ==
    IF k = 0 THEN c ELSE (PenalisedDown(c, k - 1) * 95) \div 100

\* C15: the confidence of an accumulator of two or more legs is the
\* geometric mean of the leg confidences times 0.95^(size-1), at most 99.
\* The geometric mean lies between the least and the greatest leg
\* confidence, so the aggregate lies between these two times the penalty;
\* with all legs at the same confidence c > 0 it is strictly below c.
C15_GeometricMeanWithPenalty ==
    (Built /\ Len(acc_out.selections) >= 2) =>
        LET k == Len(acc_out.selections) - 1
        IN  /\ acc_out.confidence <= 9900
            /\ acc_out.confidence <= PenalisedUp(MaxLegConfidence, k) + 1
            /\ acc_out.confidence >= PenalisedDown(MinLegConfidence, k) - 1
            /\ (MinLegConfidence = MaxLegConfidence /\ MaxLegConfidence > 0)
                  => acc_out.confidence < MaxLegConfidence

\* The prediction of the pool behind leg i of the returned accumulator, and
\* the tier it counts for: that of its ValueBet, Tier 10 without one.
LegPrediction(i) ==
    CHOOSE p \in {pool[k] : k \in 1..Len(pool)} :
        p.matchId = acc_out.selections[i].matchId
LegTier(i) ==
    IF IsNone(LegPrediction(i).valueBet) THEN "Tier 10"
    ELSE IF "tier" \in DOMAIN LegPrediction(i).valueBet
    THEN LegPrediction(i).valueBet.tier ELSE "Tier 10"
LegTiers == {LegTier(i) : i \in 1..Len(acc_out.selections)}

\* C16: an accumulator built with target 'Tier 10' has the strictest tier
\* common to all legs: Tier 1 iff every leg is Tier 1, otherwise Tier 2 iff
\* every leg is Tier 1 or 2, otherwise Tier 5 iff every leg is Tier 1, 2 or
\* 5, otherwise Tier 10; a leg without a ValueBet counts as Tier 10.
C16_TierIsStrictestCommon ==
    (Built /\ LastAttempt.target_tier = "Tier 10") =>
        /\ acc_out.tier = "Tier 1" <=> LegTiers \subseteq {"Tier 1"}
        /\ acc_out.tier = "Tier 2" <=>
              (LegTiers \subseteq {"Tier 1", "Tier 2"} /\ "Tier 2" \in LegTiers)
        /\ acc_out.tier = "Tier 5" <=>
              (LegTiers \subseteq {"Tier 1", "Tier 2", "Tier 5"} /\ "Tier 5" \in LegTiers)
        /\ acc_out.tier = "Tier 10" <=> "Tier 10" \in LegTiers

\* C16 witness: an accumulator built with target 'Tier 10' from a Tier 1 leg
\* followed by a Tier 2 leg, with overall tier Tier 2.
C16_Witness ==
    /\ Built /\ LastAttempt.target_tier = "Tier 10"
    /\ Len(acc_out.selections) >= 2
    /\ LegTier(1) = "Tier 1" /\ LegTier(2) = "Tier 2"
    /\ acc_out.tier = "Tier 2"

\* ------------------------------------------------- generate_accumulators

\* The accumulators of bucket b, as a set.
Bucket(b) == {accumulators[b][i] : i \in 1..Len(accumulators[b])}

\* The tier the legs of accumulator a give it: the strictest tier common
\* to all legs.
LegDerivedTier(a) ==
    LET tiers == {a.selections[i].tier : i \in 1..Len(a.selections)}
    IN  IF tiers \subseteq {"Tier 1"} THEN "Tier 1"
        ELSE IF tiers \subseteq {"Tier 1", "Tier 2"} THEN "Tier 2"
        ELSE IF tiers \subseteq {"Tier 1", "Tier 2", "Tier 5"} THEN "Tier 5"
        ELSE "Tier 10"

\* C17: every accumulator of bucket 'tier1' has tier 'Tier 1', every one of
\* 'tier2' has 'Tier 2', every one of 'tier5' has 'Tier 5', also when the
\* relaxation ladder was used to build it, and every one of 'tier10' has
\* the tier derived from its legs.
C17_BucketsHoldTheirTier ==
    /\ \A a \in Bucket("tier1") : a.tier = "Tier 1"
    /\ \A a \in Bucket("tier2") : a.tier = "Tier 2"
    /\ \A a \in Bucket("tier5") : a.tier = "Tier 5"
    /\ \A a \in Bucket("tier10") : a.tier = LegDerivedTier(a)

\* How many entries of bucket b are accumulator a.
Occurrences(b, a) ==
    Cardinality({i \in 1..Len(accumulators[b]) : accumulators[b][i] = a})

TierBuckets == {"tier1", "tier2", "tier5", "tier10"}
SizeBuckets == {"small", "medium", "large", "mega"}

\* The size-keyed bucket that holds accumulators of n legs.
BucketOfSize(n) ==
    IF n <= 3 THEN "small" ELSE IF n <= 5 THEN "medium"
    ELSE IF n <= 8 THEN "large" ELSE "mega"

\* Every result that is not None is in the tier-keyed bucket of the
\* requested tier and in the size-keyed bucket of its size.
C18_ResultsPlaced ==
    \A k \in 1..Len(results) :
        ~IsNone(results[k]) =>
            /\ Occurrences(TierBucket(Matrix[k]), results[k]) >= 1
            /\ Occurrences(BucketOfSize(results[k].size), results[k]) >= 1

\* 'small' holds only sizes 2-3, 'medium' only 4-5, 'large' only 6-8 and
\* 'mega' only sizes of 10 and more.
C18_SizeBucketsAgree ==
    /\ \A a \in Bucket("small") : a.size \in 2..3
    /\ \A a \in Bucket("medium") : a.size \in 4..5
    /\ \A a \in Bucket("large") : a.size \in 6..8
    /\ \A a \in Bucket("mega") : a.size >= 10

\* No bucket holds two entries with one id.
C18_NoDuplicates ==
    \A b \in BucketNames : \A i, j \in 1..Len(accumulators[b]) :
        accumulators[b][i].id = accumulators[b][j].id => i = j

\* C18: every result of the matrix that is not None is in exactly one
\* tier-keyed bucket, that of the requested tier, and in exactly one
\* size-keyed bucket, which agrees with its size (small 2-3, medium 4-5,
\* large 6-8, mega 10 and more); no accumulator appears twice in a bucket.
C18_OneTierBucketOneSizeBucket ==
    /\ \A k \in 1..Len(results) :
          ~IsNone(results[k]) =>
              /\ \A b \in TierBuckets :
                    Occurrences(b, results[k]) =
                        (IF b = TierBucket(Matrix[k]) THEN 1 ELSE 0)
              /\ \A b \in SizeBuckets :
                    Occurrences(b, results[k]) =
                        (IF b = BucketOfSize(results[k].size) THEN 1 ELSE 0)
    /\ C18_SizeBucketsAgree
    /\ C18_NoDuplicates

\* The number of results so far that are not None.
Successes == Cardinality({k \in 1..Len(results) : ~IsNone(results[k])})

\* C19: a call of the matrix that fails (None, or an exception inside
\* generate_accumulator) does not end the batch: when generate_accumulators
\* returns every call of the matrix has been made, the failed calls have
\* added no entry, and all eight buckets are there.
C19_FailureNeverAborts ==
    /\ DOMAIN accumulators = BucketNames
    /\ Len(accumulators.tier1) + Len(accumulators.tier2)
         + Len(accumulators.tier5) + Len(accumulators.tier10) = Successes
    /\ Len(accumulators.small) + Len(accumulators.medium)
         + Len(accumulators.large) + Len(accumulators.mega) = Successes
    /\ pc = "matrix_done" => Len(results) = Len(Matrix)

\* The batch has returned, and a call that failed was followed by one that
\* built an accumulator.
C19_Witness ==
    /\ pc = "matrix_done"
    /\ \E k, j \in 1..Len(results) :
          k < j /\ IsNone(results[k]) /\ ~IsNone(results[j])

\* What call k of the matrix returns in a run that makes it at second 0.
ResultAtZero(k) ==
    generate_accumulator(pool, Matrix[k].size, Matrix[k].min_confidence,
                         Matrix[k].target_tier, 0)

\* C20: two runs on the same batch give the same accumulators (same ids,
\* same fields, same legs) whatever the time of each run: every result of
\* this run is the result of the run made at second 0.
C20_SameWhateverTheTime ==
    \A k \in 1..Len(results) : results[k] = ResultAtZero(k)

\* ------------------------------------------- _calculate_confidence_score

\* The keys of a dict over the outcomes, in insertion order.
DictKeys(d) == SelectSeq(Outcomes, LAMBDA o : o \in DOMAIN d)

\* max(d, key=d.get): the first key, in insertion order, of the greatest
\* value.
FirstMaxKey(d) ==
    LET keys == DictKeys(d)
        i == CHOOSE k \in 1..Len(keys) :
                 /\ \A j \in 1..Len(keys) : d[keys[j]] <= d[keys[k]]
                 /\ \A j \in 1..(k - 1) : d[keys[j]] < d[keys[k]]
    IN  keys[i]

\* sorted(d.values(), reverse=True)[1]: the greatest value among the other
\* keys.
SecondValue(d) ==
    LET rest == DOMAIN d \ {FirstMaxKey(d)}
    IN  d[CHOOSE k \in rest : \A j \in rest : d[j] <= d[k]]

\* Lines 686-695: the level of a confidence given in hundredths of a percent.
ConfidenceLevel(confidence) ==
    IF confidence >= 8500 THEN "very high"
    ELSE IF confidence >= 7000 THEN "high"
    ELSE IF confidence >= 5500 THEN "medium"
    ELSE IF confidence >= 4000 THEN "low"
    ELSE "very low"

\* Lines 710-712: what the except clause returns.
BaselineScore == [score |-> 600, level |-> "medium"]

\* Lines 655-658: the implied probabilities before they are normalised,
\* and their sum.
Implied(odds) == [k \in DOMAIN odds |-> RoundDiv(100 * PS, odds[k])]
TotalImplied(odds) ==
    SeqSum([i \in 1..Len(DictKeys(odds)) |-> Implied(odds)[DictKeys(odds)[i]]])

\* The ZeroDivisionError of 1/v (line 655) and of v/total_implied (line 658).
OddsRaise(odds) ==
    IF \E k \in DOMAIN odds : odds[k] = 0 THEN TRUE ELSE TotalImplied(odds) = 0

\* Lines 653-676: the factor of the agreement with the bookmaker; odds is a
\* dict of odds in hundredths, none of them 0.
OddsFactor(probabilities, odds) ==
    LET implied_probs == [k \in DOMAIN odds |->
                             FDiv(Implied(odds)[k], TotalImplied(odds))]
        highest_outcome == FirstMaxKey(probabilities)
        bookies_highest == FirstMaxKey(implied_probs)
        agreement == IF highest_outcome = bookies_highest
                     THEN (12 * PS) \div 10 ELSE (9 * PS) \div 10
        bookies_prob == IF highest_outcome \in DOMAIN odds
                        THEN implied_probs[highest_outcome] ELSE 0
        disagreement == Abs(probabilities[highest_outcome] - bookies_prob)
    IN  IF disagreement > (2 * PS) \div 10
        THEN FMul(agreement, (8 * PS) \div 10) ELSE agreement

\* Lines 622-712.  probabilities is a dict of probabilities in units of
\* 1/PS; odds is a dict of odds or None; historical_success_rate is in
\* units of 1/PS, 0 standing for None and for 0 (both are skipped by the
\* test of line 679).  The score is in tenths of a percent.
calculate_confidence_score(probabilities, odds, historical_success_rate) ==
    IF DOMAIN probabilities = {} THEN BaselineScore
    ELSE
    LET confidence == probabilities[FirstMaxKey(probabilities)]
        margin_factor ==
            IF Cardinality(DOMAIN probabilities) > 1
            THEN PS + 2 * (confidence - SecondValue(probabilities))
            ELSE PS
        has_odds == ~IsNone(odds) /\ DOMAIN odds # {}
    IN  IF has_odds /\ OddsRaise(odds) THEN BaselineScore
        ELSE
        LET with_odds == IF has_odds
                         THEN FMul(margin_factor, OddsFactor(probabilities, odds))
                         ELSE margin_factor
            certainty_factor ==
                IF historical_success_rate # 0
                THEN FMul(with_odds, PS \div 2 + historical_success_rate \div 2)
                ELSE with_odds
            adjusted_confidence == Min2(9990, FMul(confidence, certainty_factor))
        IN  [score |-> RoundDiv(adjusted_confidence, 10),
             level |-> ConfidenceLevel(adjusted_confidence)]

\* ------------------------------------------------ get_sport_predictions

\* api.py lines 180-185: the filter on min_confidence.
FilterByConfidence(stored, min_confidence) ==
    IF min_confidence.given
    THEN SelectSeq(stored, LAMBDA q : q.confidence >= min_confidence.value)
    ELSE stored

\* api.py line 189: p.get('valueBet', {}).get raises AttributeError on a
\* valueBet that is None.
TierFilterRaises(predictions_, tier) ==
    tier.given /\ \E i \in 1..Len(predictions_) : IsNone(predictions_[i].valueBet)

\* api.py lines 187-192: the filters on the tier and on premium.
FilterByTier_Premium(predictions_, tier, include_premium) ==
    LET by_tier ==
            IF tier.given
            THEN SelectSeq(predictions_,
                           LAMBDA q : ValueBetTier(q.valueBet) = tier.value)
            ELSE predictions_
    IN  IF include_premium THEN by_tier
        ELSE SelectSeq(by_tier, LAMBDA q : ~q.isPremium)

\* api.py lines 194-215: the level and the tier added to one prediction.
Enrich(prediction) ==
    [confidence |-> prediction.confidence,
     isPremium |-> prediction.isPremium,
     valueBet |-> prediction.valueBet,
     confidenceLevel |-> ConfidenceLevel(prediction.confidence),
     tier |-> IF IsNone(prediction.valueBet) THEN Raise
              ELSE ValueBetTier(prediction.valueBet)]

\* api.py lines 156-252: the response, with status 500 when an exception
\* reached the except clause.
get_sport_predictions(stored, min_confidence, tier, include_premium) ==
    LET raised == [success |-> FALSE, status |-> 500, predictions |-> <<>>]
        by_confidence == FilterByConfidence(stored, min_confidence)
        filtered == FilterByTier_Premium(by_confidence, tier, include_premium)
    IN  IF TierFilterRaises(by_confidence, tier) THEN raised
        ELSE IF \E i \in 1..Len(filtered) : IsNone(filtered[i].valueBet) THEN raised
        ELSE [success |-> TRUE, status |-> 200,
              predictions |-> [i \in 1..Len(filtered) |-> Enrich(filtered[i])]]

\* ------------------------------ specification of the confidence levels

\* Probabilities handed to _calculate_confidence_score: no outcome, one,
\* two and three outcomes.
ConfProbabilities ==
    {[o \in {} |-> 0], [o \in {"H"} |-> 8496], [o \in {"H"} |-> 3996]}
      \cup {[o \in {"H", "A"} |-> IF o = "H" THEN h ELSE PS - h] :
               h \in {5000, 5598, 6026, 4000, 9000}}
      \cup {[o \in {"H", "D", "A"} |->
                IF o = "H" THEN t[1] ELSE IF o = "D" THEN t[2] ELSE t[3]] :
               t \in {<<6000, 3920, 80>>, <<4000, 2000, 4000>>, <<3400, 3300, 3300>>,
                      <<2000, 2500, 5500>>, <<5000, 3000, 2000>>}}

\* The odds that go with the outcomes keys: none, an empty dict, a home
\* favourite, an away favourite, and odds of 0.
ConfOdds(keys) ==
    {None, [o \in {} |-> 0],
     [o \in keys |-> IF o = "H" THEN 150 ELSE IF o = "D" THEN 400 ELSE 600],
     [o \in keys |-> IF o = "H" THEN 600 ELSE IF o = "D" THEN 400 ELSE 150],
     [o \in keys |-> IF o = "H" THEN 0 ELSE 300]}

ConfHistory == {0, (6 * PS) \div 10, PS}

\* Stored predictions as get_sport_predictions reads them.
StoredPredictions ==
    {[confidence |-> c, isPremium |-> c > 8000, valueBet |-> vb] :
        c \in {3999, 4000, 5499, 5500, 6999, 7000, 8499, 8500, 13922},
        vb \in {None, [outcome |-> "H", odds |-> 180, value |-> 598,
                       isRecommended |-> TRUE],
                [outcome |-> "H", odds |-> 200, value |-> 2000, edge |-> 100,
                 tier |-> "Tier 1", isRecommended |-> TRUE]}}

NotGiven == [given |-> FALSE]
Given(v) == [given |-> TRUE, value |-> v]

ConfInit ==
    /\ \/ /\ pc = "confidence_call"
          /\ \E pr \in ConfProbabilities : \E od \in ConfOdds(DOMAIN pr) :
             \E hs \in ConfHistory :
                conf_args = [probabilities |-> pr, odds |-> od,
                             historical_success_rate |-> hs]
       \/ /\ pc = "sport_predictions_call"
          /\ \E a \in StoredPredictions, b \in StoredPredictions :
             \E mc \in {NotGiven, Given(7000)}, t \in {NotGiven, Given("Tier 1")} :
             \E ip \in BOOLEAN :
                conf_args = [stored |-> IF a = b THEN <<a>> ELSE <<a, b>>,
                             min_confidence |-> mc, tier |-> t,
                             include_premium |-> ip]
    /\ conf_out = None
    /\ PredictIdle /\ ValueIdle /\ AccIdle /\ MatrixIdle /\ ApiIdle /\ SchedIdle

\* One call of _calculate_confidence_score.
CalculateConfidenceScore ==
    /\ pc = "confidence_call"
    /\ conf_out' = calculate_confidence_score(conf_args.probabilities, conf_args.odds,
                                              conf_args.historical_success_rate)
    /\ pc' = "confidence_done"
    /\ UNCHANGED <<conf_args, predict_vars, value_vars, acc_vars, matrix_vars, api_vars,
                   sched_vars>>

\* One request GET /api/predictions/sports/<sport>.
GetSportPredictions ==
    /\ pc = "sport_predictions_call"
    /\ conf_out' = get_sport_predictions(conf_args.stored, conf_args.min_confidence,
                                         conf_args.tier, conf_args.include_premium)
    /\ pc' = "sport_predictions_done"
    /\ UNCHANGED <<conf_args, predict_vars, value_vars, acc_vars, matrix_vars, api_vars,
                   sched_vars>>

ConfNext == CalculateConfidenceScore \/ GetSportPredictions

SpecConfidence == ConfInit /\ [][ConfNext]_vars

\* C24: wherever a level is reported next to a confidence value, by
\* _calculate_confidence_score and by get_sport_predictions, the level is the
\* band of the reported value: >= 85 very high, >= 70 high, >= 55 medium,
\* >= 40 low, otherwise very low.
C24_LevelIsBandOfReportedValue ==
    /\ pc = "confidence_done" =>
          conf_out.level = ConfidenceLevel(conf_out.score * 10)
    /\ pc = "sport_predictions_done" =>
          \A i \in 1..Len(conf_out.predictions) :
              conf_out.predictions[i].confidenceLevel =
                  ConfidenceLevel(conf_out.predictions[i].confidence)

\* The part of C24 about get_sport_predictions alone.
C24_EnrichedLevelIsBand ==
    pc = "sport_predictions_done" =>
        \A i \in 1..Len(conf_out.predictions) :
            LET c == conf_out.predictions[i].confidence
            IN  conf_out.predictions[i].confidenceLevel =
                    IF c >= 8500 THEN "very high" ELSE IF c >= 7000 THEN "high"
                    ELSE IF c >= 5500 THEN "medium" ELSE IF c >= 4000 THEN "low"
                    ELSE "very low"

\* ------------------------------------- POST /api/predictions/generate

\* The handler generate_predictions of api.py, one action per statement group,
\* and the three methods of FirestoreStorage it calls.  A list of matches or
\* of predictions is represented by its length: the handler only tests the
\* lists for emptiness, counts them and hands them on.

\* Most matches the supplier returns for one sport.
MaxMatches == 2

\* The sports the handler accepts; data_fetcher.fetch_matches_by_sport knows
\* these two.
SupportedSports == <<"football", "basketball">>

\* A storage method that leaks its exception to the caller.
SinkCallUncaught(method, initialized, fails) ==
    IF ~initialized
    THEN [raised |-> FALSE, returned |-> method # "send_notification"]
    ELSE [raised |-> fails, returned |-> TRUE]

\* What a call of store_predictions, store_accumulators or send_notification
\* gives the caller.  Without Firebase the store methods keep the data in
\* memory and return True and send_notification returns False; with Firebase
\* each method runs in a try block whose handler logs and returns False.
SinkCall(method, initialized, fails) ==
    IF ~initialized
    THEN [raised |-> FALSE, returned |-> method # "send_notification"]
    ELSE [raised |-> FALSE, returned |-> ~fails]

\* Lines 146-152: the handler's own except clause.
ErrorResponse(status) == [success |-> FALSE, status |-> status]

\* Lines 115 and 140: sum(len(predictions) for ...).
TotalPredictions == SeqSum(api_predictions)

ApiInit ==
    /\ pc = "validate"
    /\ \E d \in {0, 3, 15} :
       \E sp \in {<<>>, <<"football">>, <<"basketball", "football">>, <<"tennis">>} :
       \E sr \in BOOLEAN, nu \in BOOLEAN :
          request = [days_ahead |-> d, sports |-> sp, store_results |-> sr,
                     notify_users |-> nu]
    /\ is_initialized \in BOOLEAN
    /\ sport_idx = 1 /\ api_matches = <<>> /\ api_predictions = <<>>
    /\ api_accumulators = None /\ sink_calls = <<>> /\ response = None
    /\ PredictIdle /\ ValueIdle /\ AccIdle /\ MatrixIdle /\ ConfIdle /\ SchedIdle

\* Lines 60-84: validation and the default list of sports.
ValidateRequest ==
    /\ pc = "validate"
    /\ LET sports == IF request.sports = <<>> THEN SupportedSports
                     ELSE request.sports
           known == {SupportedSports[i] : i \in 1..Len(SupportedSports)}
       IN  IF \/ request.days_ahead < 1 \/ request.days_ahead > 14
              \/ \E i \in 1..Len(sports) : sports[i] \notin known
           THEN /\ response' = ErrorResponse(400) /\ pc' = "done"
                /\ UNCHANGED request
           ELSE /\ request' = [request EXCEPT !.sports = sports]
                /\ pc' = "fetch" /\ UNCHANGED response
    /\ UNCHANGED <<is_initialized, sport_idx, api_matches, api_predictions,
                   api_accumulators, sink_calls>>
    /\ UNCHANGED <<predict_vars, value_vars, acc_vars, matrix_vars, conf_vars, sched_vars>>

\* Lines 86-91: one turn of the fetch loop.
FetchMatches ==
    /\ pc = "fetch"
    /\ \E n \in 0..MaxMatches : api_matches' = Append(api_matches, n)
    /\ IF sport_idx = Len(request.sports)
       THEN pc' = "predict" /\ sport_idx' = 1
       ELSE pc' = pc /\ sport_idx' = sport_idx + 1
    /\ UNCHANGED <<request, is_initialized, api_predictions, api_accumulators,
                   sink_calls, response>>
    /\ UNCHANGED <<predict_vars, value_vars, acc_vars, matrix_vars, conf_vars, sched_vars>>

\* Lines 93-103: one turn of the prediction loop.  predict_matches returns at
\* most one prediction per match, and no matches give the empty list.
PredictSport ==
    /\ pc = "predict"
    /\ \E k \in 0..api_matches[sport_idx] :
          api_predictions' = Append(api_predictions, k)
    /\ IF sport_idx = Len(request.sports)
       THEN pc' = "accumulators" /\ sport_idx' = 1
       ELSE pc' = pc /\ sport_idx' = sport_idx + 1
    /\ UNCHANGED <<request, is_initialized, api_matches, api_accumulators,
                   sink_calls, response>>
    /\ UNCHANGED <<predict_vars, value_vars, acc_vars, matrix_vars, conf_vars, sched_vars>>

\* Lines 105-109: generate_accumulators returns its eight buckets.
GenerateAccumulators ==
    /\ pc = "accumulators"
    /\ api_accumulators' = [buckets |-> Cardinality(BucketNames)]
    /\ pc' = IF request.store_results THEN "store_predictions" ELSE "notify"
    /\ UNCHANGED <<request, is_initialized, sport_idx, api_matches,
                   api_predictions, sink_calls, response>>
    /\ UNCHANGED <<predict_vars, value_vars, acc_vars, matrix_vars, conf_vars, sched_vars>>

\* Lines 110-112: one turn of the store loop; a sport without predictions is
\* passed over.
StorePredictions ==
    /\ pc = "store_predictions"
    /\ \E fails \in BOOLEAN :
       LET result == SinkCall("store_predictions", is_initialized, fails)
           called == api_predictions[sport_idx] > 0
           last == sport_idx = Len(request.sports)
       IN  /\ sink_calls' =
                 IF called
                 THEN Append(sink_calls, [method |-> "store_predictions",
                                          sport |-> request.sports[sport_idx],
                                          result |-> result])
                 ELSE sink_calls
           /\ IF called /\ result.raised
              THEN /\ response' = ErrorResponse(500) /\ pc' = "done"
                   /\ UNCHANGED sport_idx
              ELSE /\ UNCHANGED response
                   /\ pc' = IF last THEN "store_accumulators" ELSE pc
                   /\ sport_idx' = IF last THEN 1 ELSE sport_idx + 1
    /\ UNCHANGED <<request, is_initialized, api_matches, api_predictions,
                   api_accumulators>>
    /\ UNCHANGED <<predict_vars, value_vars, acc_vars, matrix_vars, conf_vars, sched_vars>>

\* Lines 114-115: the dictionary of buckets is never empty.
StoreAccumulators ==
    /\ pc = "store_accumulators"
    /\ \E fails \in BOOLEAN :
       LET result == SinkCall("store_accumulators", is_initialized, fails)
           called == api_accumulators.buckets > 0
       IN  /\ sink_calls' =
                 IF called
                 THEN Append(sink_calls, [method |-> "store_accumulators",
                                          sport |-> "", result |-> result])
                 ELSE sink_calls
           /\ IF called /\ result.raised
              THEN response' = ErrorResponse(500) /\ pc' = "done"
              ELSE UNCHANGED response /\ pc' = "notify"
    /\ UNCHANGED <<request, is_initialized, sport_idx, api_matches,
                   api_predictions, api_accumulators>>
    /\ UNCHANGED <<predict_vars, value_vars, acc_vars, matrix_vars, conf_vars, sched_vars>>

\* Lines 117-134.
SendNotification ==
    /\ pc = "notify"
    /\ \E fails \in BOOLEAN :
       LET result == SinkCall("send_notification", is_initialized, fails)
           called == /\ request.notify_users /\ request.store_results
                     /\ TotalPredictions > 0
       IN  /\ sink_calls' =
                 IF called
                 THEN Append(sink_calls, [method |-> "send_notification",
                                          sport |-> "", result |-> result])
                 ELSE sink_calls
           /\ IF called /\ result.raised
              THEN response' = ErrorResponse(500) /\ pc' = "done"
              ELSE UNCHANGED response /\ pc' = "respond"
    /\ UNCHANGED <<request, is_initialized, sport_idx, api_matches,
                   api_predictions, api_accumulators>>
    /\ UNCHANGED <<predict_vars, value_vars, acc_vars, matrix_vars, conf_vars, sched_vars>>

\* Lines 136-146.
Respond ==
    /\ pc = "respond"
    /\ response' = [success |-> TRUE, status |-> 200,
                    predictions |-> api_predictions,
                    total_predictions |-> TotalPredictions,
                    accumulators |-> api_accumulators.buckets]
    /\ pc' = "done"
    /\ UNCHANGED <<request, is_initialized, sport_idx, api_matches,
                   api_predictions, api_accumulators, sink_calls>>
    /\ UNCHANGED <<predict_vars, value_vars, acc_vars, matrix_vars, conf_vars, sched_vars>>

ApiNext ==
    \/ ValidateRequest \/ FetchMatches \/ PredictSport \/ GenerateAccumulators
    \/ StorePredictions \/ StoreAccumulators \/ SendNotification \/ Respond

SpecApi == ApiInit /\ [][ApiNext]_vars

\* The handler has computed the predictions of every requested sport and
\* the accumulators.
ComputationFinished ==
    /\ Len(api_predictions) = Len(request.sports)
    /\ api_accumulators # None

\* The positions of the calls of one storage method.
CallsOf(method) == {i \in 1..Len(sink_calls) : sink_calls[i].method = method}

\* C26: in generate_predictions no store_predictions, store_accumulators or
\* send_notification call happens before the predictions of every requested
\* sport and the accumulators have been computed; the notification comes
\* after every store call, and the store calls were made; a storage call
\* that fails leaves the response a success.
C26_SinkAfterComputationAndNonFatal ==
    /\ sink_calls # <<>> => ComputationFinished
    /\ \A i \in CallsOf("send_notification") :
          /\ i = Len(sink_calls)
          /\ CallsOf("store_accumulators") # {}
          /\ \A k \in 1..Len(request.sports) :
                api_predictions[k] > 0 =>
                    \E j \in CallsOf("store_predictions") :
                        sink_calls[j].sport = request.sports[k]
    /\ (pc = "done" /\ sink_calls # <<>>) =>
          response.success /\ response.status = 200

\* A request answered with success although each of the three storage calls
\* failed.
C26_Witness ==
    /\ pc = "done" /\ response.success
    /\ \A method \in {"store_predictions", "store_accumulators", "send_notification"} :
          \E i \in CallsOf(method) : ~sink_calls[i].result.returned

\* ------------------------------------------------- the job scheduler

\* start_scheduler, stop_scheduler and scheduler_loop of cron_jobs.py.  The
\* module globals is_running and scheduler_thread are shared by every caller
\* and every loop thread without a lock, so each statement that reads or
\* writes them is a step of its own.

\* Threads that call start_scheduler and stop_scheduler.
MaxCallers == 2
\* Calls made in one run.
MaxCalls == 3

Callers == 1..MaxCallers
\* Every call starts at most one loop thread.
Threads == 1..MaxCalls
NoCall == [op |-> "none", at |-> "idle", returned |-> None]
OtherVars == <<pc, predict_vars, value_vars, acc_vars, matrix_vars, conf_vars, api_vars>>

\* Lines 28-29: the module is loaded, nothing was started.
SchedInit ==
    /\ pc = "scheduler"
    /\ is_running = FALSE /\ scheduler_thread = None /\ loops = <<>>
    /\ calls = [c \in Callers |-> NoCall] /\ ncalls = 0
    /\ PredictIdle /\ ValueIdle /\ AccIdle /\ MatrixIdle /\ ConfIdle /\ ApiIdle

\* Lines 421-423: start_scheduler reads the flag.
StartCheck(c) ==
    /\ calls[c].at = "idle" /\ ncalls < MaxCalls
    /\ ncalls' = ncalls + 1
    /\ calls' = [calls EXCEPT ![c] =
                    IF is_running
                    THEN [op |-> "start", at |-> "idle", returned |-> [value |-> FALSE]]
                    ELSE [op |-> "start", at |-> "set_flag", returned |-> None]]
    /\ UNCHANGED <<is_running, scheduler_thread, loops, OtherVars>>

\* Lines 426-429: setup_schedule(), then is_running = True.
StartSetFlag(c) ==
    /\ calls[c].op = "start" /\ calls[c].at = "set_flag"
    /\ is_running' = TRUE
    /\ calls' = [calls EXCEPT ![c].at = "spawn"]
    /\ UNCHANGED <<scheduler_thread, loops, ncalls, OtherVars>>

\* Lines 432-437: the new thread is stored and started; it begins at the
\* test of its while loop.
StartSpawn(c) ==
    /\ calls[c].op = "start" /\ calls[c].at = "spawn"
    /\ loops' = Append(loops, "test")
    /\ scheduler_thread' = [thread |-> Len(loops) + 1]
    /\ calls' = [calls EXCEPT ![c] =
                    [op |-> "start", at |-> "idle", returned |-> [value |-> TRUE]]]
    /\ UNCHANGED <<is_running, ncalls, OtherVars>>

\* Lines 443-445: stop_scheduler reads the flag.
StopCheck(c) ==
    /\ calls[c].at = "idle" /\ ncalls < MaxCalls
    /\ ncalls' = ncalls + 1
    /\ calls' = [calls EXCEPT ![c] =
                    IF ~is_running
                    THEN [op |-> "stop", at |-> "idle", returned |-> [value |-> FALSE]]
                    ELSE [op |-> "stop", at |-> "clear_flag", returned |-> None]]
    /\ UNCHANGED <<is_running, scheduler_thread, loops, OtherVars>>

\* Line 448: is_running = False.
StopClearFlag(c) ==
    /\ calls[c].op = "stop" /\ calls[c].at = "clear_flag"
    /\ is_running' = FALSE
    /\ calls' = [calls EXCEPT ![c].at = "join"]
    /\ UNCHANGED <<scheduler_thread, loops, ncalls, OtherVars>>

\* Lines 451-455: join(timeout=5.0) returns when the thread has ended, or
\* after five seconds while the thread is still inside a job, and the call
\* returns True either way.
StopJoin(c) ==
    /\ calls[c].op = "stop" /\ calls[c].at = "join"
    /\ \/ scheduler_thread = None
       \/ /\ scheduler_thread # None
          /\ loops[scheduler_thread.thread] \in {"stopped", "run_pending"}
    /\ calls' = [calls EXCEPT ![c] =
                    [op |-> "stop", at |-> "idle", returned |-> [value |-> TRUE]]]
    /\ UNCHANGED <<is_running, scheduler_thread, loops, ncalls, OtherVars>>

\* Line 374: while is_running.
LoopTest(t) ==
    /\ t <= Len(loops) /\ loops[t] = "test"
    /\ loops' = [loops EXCEPT ![t] = IF is_running THEN "run_pending" ELSE "stopped"]
    /\ UNCHANGED <<is_running, scheduler_thread, calls, ncalls, OtherVars>>

\* Line 375: schedule.run_pending() returns when the due jobs have run.
LoopRunPending(t) ==
    /\ t <= Len(loops) /\ loops[t] = "run_pending"
    /\ loops' = [loops EXCEPT ![t] = "sleep"]
    /\ UNCHANGED <<is_running, scheduler_thread, calls, ncalls, OtherVars>>

\* Line 376: time.sleep(1).
LoopSleep(t) ==
    /\ t <= Len(loops) /\ loops[t] = "sleep"
    /\ loops' = [loops EXCEPT ![t] = "test"]
    /\ UNCHANGED <<is_running, scheduler_thread, calls, ncalls, OtherVars>>

SchedNext ==
    \/ \E c \in Callers : StartCheck(c)
    \/ \E c \in Callers : StartSetFlag(c)
    \/ \E c \in Callers : StartSpawn(c)
    \/ \E c \in Callers : StopCheck(c)
    \/ \E c \in Callers : StopClearFlag(c)
    \/ \E c \in Callers : StopJoin(c)
    \/ \E t \in Threads : LoopTest(t)
    \/ \E t \in Threads : LoopRunPending(t)
    \/ \E t \in Threads : LoopSleep(t)

SpecScheduler == SchedInit /\ [][SchedNext]_vars

\* The loop threads inside schedule.run_pending.
RunningPending == {t \in 1..Len(loops) : loops[t] = "run_pending"}

\* C30: under any interleaving of start_scheduler and stop_scheduler calls
\* at most one scheduler_loop thread is executing schedule.run_pending at any
\* time.
C30_AtMostOneLoopRunsPending == Cardinality(RunningPending) <= 1

\* The second half of C30: a start_scheduler call that reads is_running as
\* true returns False and starts no thread.
C30_RefusedStartSpawnsNothing ==
    [][\A c \in Callers :
          (StartCheck(c) /\ is_running) =>
              /\ calls'[c].returned = [value |-> FALSE]
              /\ loops' = loops]_vars

\* ------------------------------------------------- correct score, heuristic

\* The emitted predictions of the heuristic football path.
HeuristicEmitted == {p \in Emitted : p.sport = "football" /\ p.path = "heuristic"}

\* The most probable cells of the score table of prediction p.
BestCells(p) ==
    {c \in DOMAIN p.score_probs :
        \A d \in DOMAIN p.score_probs : p.score_probs[d] <= p.score_probs[c]}

\* C21: the correct score of the heuristic football path is a cell of the
\* 6 x 6 table with the greatest joint probability, and among several such
\* cells the one with the lowest total goals, then the lowest home goals.
C21_CorrectScoreIsLowestBestCell ==
    \A p \in HeuristicEmitted :
        /\ DOMAIN p.score_probs = (0..5) \X (0..5)
        /\ p.correctScore \in BestCells(p)
        /\ \A d \in BestCells(p) :
              \/ p.correctScore[1] + p.correctScore[2] < d[1] + d[2]
              \/ /\ p.correctScore[1] + p.correctScore[2] = d[1] + d[2]
                 /\ p.correctScore[1] <= d[1]

\* A heuristic prediction whose table has several most probable cells.
C21_Witness ==
    \E p \in HeuristicEmitted :
        /\ Cardinality(BestCells(p)) >= 2
        /\ p.correctScore \in BestCells(p)

\* ------------------------------------------------- draw floor, heuristic

\* home_prob + draw_prob + away_prob of prediction p as they stand after
\* lines 461-472, in units of 1/PS.
AdjustedSum(p) == p.locals["H"] + p.locals["D"] + p.locals["A"]

\* C22: after the draw-floor adjustment of _statistical_football_prediction
\* home_prob + draw_prob + away_prob is 1 (here: within 0.0005 of 1, the
\* rounding of the fixed-point quotients), for every pair of strengths.
C22_AdjustedProbabilitiesSumToOne ==
    \A p \in HeuristicEmitted : Abs(AdjustedSum(p) - PS) <= 5

\* ------------------------------------------------- tier of every ValueBet

\* C23: every ValueBet attached to an emitted Prediction, football or
\* basketball, carries a tier, one of Tier 1, Tier 2, Tier 5, Tier 10.
C23_EveryValueBetHasTier ==
    \A p \in Emitted :
        ~IsNone(p.valueBet) =>
            /\ "tier" \in DOMAIN p.valueBet
            /\ p.valueBet.tier \in {"Tier 1", "Tier 2", "Tier 5", "Tier 10"}

\* ------------------------------------------------- the pool is only read

C27_LegsAtRequestedConfidence ==
    (/\ pc = "acc_done"
     /\ attempts[1].size >= 1
     /\ CountConfident(attempts[1].min_confidence) >= attempts[1].size) =>
        /\ ~IsNone(acc_out)
        /\ \A i \in 1..Len(acc_out.selections) :
              acc_out.selections[i].confidence >= attempts[1].min_confidence * 100

\* ------------------------------------------------- ids of accumulators

\* C28: within one run of generate_accumulators distinct accumulators have
\* distinct ids: two results with one id are one accumulator.
C28_DistinctAccumulatorsDistinctIds ==
    \A j, k \in 1..Len(results) :
        (~IsNone(results[j]) /\ ~IsNone(results[k]) /\ results[j].id = results[k].id)
            => results[j] = results[k]

\* ------------------------------------------------- consistency of a leg

\* C29: every selection of a built accumulator has the odds of its own
\* outcome for its match and the confidence of the model for that outcome;
\* a leg taken from the ValueBet has the Prediction's predicted outcome.
C29_SelectionConsistent ==
    Built =>
        \A i \in 1..Len(acc_out.selections) :
            LET leg == acc_out.selections[i]
                prediction == LegPrediction(i)
            IN  /\ leg.odds = prediction.odds[leg.outcome]
                /\ leg.confidence = Pct2(prediction.locals[leg.outcome])
                /\ leg.outcome = prediction.predictedOutcome

====
